---- MODULE Spec2Model ----
(***************************************************************************)
(* A model of the csview/csvi editing engine: the format-preserving cell   *)
(* and row model, the incremental ingestion of rows, the command loop of   *)
(* Config.edit (src/main.go) and the writer writeCsvTo                     *)
(* (src/unnamed/part_000).                                                 *)
(*                                                                         *)
(* Bytes and characters are one-character strings; texts, terminators and  *)
(* files are sequences of them.  MB stands for a character of the legacy   *)
(* code page: in a source it is a byte sequence that is not UTF-8, in the  *)
(* document it is the decoded character.                                   *)
(***************************************************************************)
EXTENDS Integers, Sequences, FiniteSets, TLC

VARIABLES
    cfg,          \* Config: ReadOnly, ProtectHeader, FixColumn, HeaderLines, hook
    mode,         \* uncsv.Mode / _CodeFlag: Comma, DefaultTerm, bom, ansi
    tty,          \* Pilot: the screen [w, h], the cell width, what its user types
    sourceBytes,  \* the bytes of the source as they were before the session
    input,        \* bytes the reader has not yet delivered
    fetch,        \* fetch != nil
    csvLines,     \* the document: a sequence of rows [id, Cell, Term]
    removedRows,  \* app.removedRows
    files,        \* [stdout, f, bak, overWritten]: the write targets; stdout
                  \* is the sequence of the documents written to os.Stdout
    cursorRow,    \* RowPtr: [id, lnum], or NilPtr
    startRow,     \* RowPtr of the first body line of the viewport
    cursorCol,
    startCol,
    lastWord,     \* remembered search term
    lastSearch,   \* "fwd" when lastSearch = searchForward, "bwd" otherwise
    message,      \* the status message slot
    killbuffer,   \* one-slot clipboard
    pc,           \* "load", "draw", "loop", "key", "fetch", "drain", "quit", "panic", "error"
    stalled,      \* the source has nothing to deliver: a read of it does not return
    probe,        \* a direct call of a function: its arguments and results
    statusLine,   \* what the last line of the screen shows
    term,         \* the terminal: the caches of the view and the screen lines
    source,       \* the row source: [ended, failing]
    ev            \* history: the last key dispatched and how its prompts ended

vars == << cfg, mode, tty, sourceBytes, input, fetch, csvLines, removedRows,
           files, cursorRow, startRow, cursorCol, startCol, lastWord,
           lastSearch, message, killbuffer, pc, stalled, probe, statusLine,
           term, source, ev >>

(***************************************************************************)
(* Bounds of the model.                                                    *)
(***************************************************************************)
MaxIds   == 3      \* rows that exist in one session, loaded and inserted
MaxCells == 2      \* i and a are taken only while the row is shorter
MaxBytes == 3      \* longest source drawn for the round-trip specification
MaxDocRows == 2    \* rows of a document the search functions are called on
MaxOutputs == 2    \* documents one session writes to the standard output

\* The initial synchronous prefetch reads at most this many rows.  The code's
\* constant is 100 (src/main.go:443); the model scales it down so that a
\* source of a few rows outlasts the prefetch.
PrefetchRows == 1

QUOTE == "\""
LF    == "\n"
CR    == "\r"
BOM   == "BOM"
MB    == "K"

NilPtr     == [id |-> 0, lnum |-> -1]
Absent     == << "no file" >>

(***************************************************************************)
(* Sequence helpers.                                                       *)
(***************************************************************************)
Contains(s, c) == \E i \in 1..Len(s) : s[i] = c

InsertAt(s, i, x) == SubSeq(s, 1, i - 1) \o << x >> \o SubSeq(s, i, Len(s))

RemoveAt(s, i) == SubSeq(s, 1, i - 1) \o SubSeq(s, i + 1, Len(s))

\* strings.Contains(text, word) on sequences of characters
HasSub(text, word) ==
    \E i \in 0..(Len(text) - Len(word)) : SubSeq(text, i + 1, i + Len(word)) = word

(***************************************************************************)
(* Cell model (uncsv.Cell).                                                *)
(***************************************************************************)
\* does a text need the quoted form: delimiter, quote or line break in it
NeedsQuote(text, comma) ==
    Contains(text, comma) \/ Contains(text, QUOTE)
        \/ Contains(text, LF) \/ Contains(text, CR)

RECURSIVE DoubleQuotes(_)
DoubleQuotes(text) ==
    IF text = << >> THEN << >>
    ELSE (IF Head(text) = QUOTE THEN << QUOTE, QUOTE >> ELSE << Head(text) >>)
             \o DoubleQuotes(Tail(text))

QuoteText(text) == << QUOTE >> \o DoubleQuotes(text) \o << QUOTE >>

\* strip the quoting of a source representation; an unterminated quote is
\* tolerated and the rest is taken literally
RECURSIVE Dequote(_, _, _)
Dequote(raw, inq, prev) ==
    IF raw = << >> THEN << >>
    ELSE LET c == Head(raw) IN
         IF c = QUOTE
         THEN (IF ~inq /\ prev = QUOTE THEN << QUOTE >> ELSE << >>)
                  \o Dequote(Tail(raw), ~inq, c)
         ELSE << c >> \o Dequote(Tail(raw), inq, c)

Decode(raw) == Dequote(raw, FALSE, "")

IsQuotedRaw(raw) == raw # << >> /\ raw[1] = QUOTE

\* a cell as first read from the source
SourceCell(raw) ==
    [text |-> Decode(raw), original |-> raw, modified |-> FALSE,
     quoted |-> IsQuotedRaw(raw)]

\* the cell of uncsv.NewRow
EmptyCell == [text |-> << >>, original |-> << >>, modified |-> FALSE, quoted |-> FALSE]

SetText(cell, text, comma) ==
    [text |-> text, original |-> cell.original, modified |-> TRUE,
     quoted |-> NeedsQuote(text, comma)]

Quote(cell) == [cell EXCEPT !.quoted = TRUE, !.modified = TRUE]

Restore(cell) == SourceCell(cell.original)

IsQuoted(cell) == cell.quoted

\* Cell.SourceText: the bytes the cell is written as
SourceText(cell) ==
    IF ~cell.modified THEN cell.original
    ELSE IF cell.quoted THEN QuoteText(cell.text) ELSE cell.text

(***************************************************************************)
(* Row model (uncsv.Row): Cell, Term.                                      *)
(***************************************************************************)
NewRow(m) == [Cell |-> << EmptyCell >>, Term |-> m.DefaultTerm]

RowInsert(row, i, text, comma) ==
    [row EXCEPT !.Cell = InsertAt(@, i + 1, SetText(EmptyCell, text, comma))]

RowReplace(row, i, text, comma) ==
    [row EXCEPT !.Cell[i + 1] = SetText(@, text, comma)]

RowDelete(row, i) == [row EXCEPT !.Cell = RemoveAt(@, i + 1)]

RECURSIVE JoinCells(_, _)
JoinCells(cells, comma) ==
    IF cells = << >> THEN << >>
    ELSE IF Len(cells) = 1 THEN SourceText(cells[1])
    ELSE SourceText(cells[1]) \o << comma >> \o JoinCells(Tail(cells), comma)

\* Row.Rebuild: the cells in their source form, the delimiters, the terminator
Rebuild(row, comma) == JoinCells(row.Cell, comma) \o row.Term

(***************************************************************************)
(* uncsv.ReadLine: one row from the bytes not yet read.                    *)
(* Result: [row, rest, eof]; eof is TRUE when the end of the input was hit *)
(* while reading the row (err == io.EOF), the row then holding what was    *)
(* read, possibly a single empty cell.                                     *)
(***************************************************************************)
RECURSIVE ScanLine(_, _, _, _, _)
ScanLine(bytes, comma, inq, cur, cells) ==
    IF bytes = << >>
    THEN [row  |-> [Cell |-> cells \o << SourceCell(cur) >>, Term |-> << >>],
          rest |-> << >>, eof |-> TRUE]
    ELSE LET c == Head(bytes) IN
         IF c = QUOTE
         THEN ScanLine(Tail(bytes), comma, ~inq, cur \o << c >>, cells)
         ELSE IF ~inq /\ c = comma
         THEN ScanLine(Tail(bytes), comma, inq, << >>, cells \o << SourceCell(cur) >>)
         ELSE IF ~inq /\ c = LF
         THEN LET crlf == cur # << >> /\ cur[Len(cur)] = CR
                  body == IF crlf THEN SubSeq(cur, 1, Len(cur) - 1) ELSE cur
              IN [row  |-> [Cell |-> cells \o << SourceCell(body) >>,
                            Term |-> IF crlf THEN << CR, LF >> ELSE << LF >>],
                  rest |-> Tail(bytes), eof |-> FALSE]
         ELSE ScanLine(Tail(bytes), comma, inq, cur \o << c >>, cells)

ReadLine(bytes, comma) == ScanLine(bytes, comma, FALSE, << >>, << >>)

(***************************************************************************)
(* isEmptyRow (src/main.go:369-379).                                       *)
(***************************************************************************)
isEmptyRow(row) ==
    \/ Len(row.Cell) = 0
    \/ Len(row.Cell) = 1 /\ Len(row.Cell[1].original) <= 0

(***************************************************************************)
(* writeCsvTo (src/unnamed/part_000:24-54).                                *)
(***************************************************************************)
\* bufio.Scanner with ScanLines: the tokens of a text, split at LF, one
\* trailing CR dropped from each token; a last token without LF is delivered
\* when it is not empty
RECURSIVE ScanLines(_, _)
ScanLines(bytes, cur) ==
    LET dropCR(t) == IF t # << >> /\ t[Len(t)] = CR
                     THEN SubSeq(t, 1, Len(t) - 1) ELSE t
    IN IF bytes = << >>
       THEN (IF cur = << >> THEN << >> ELSE << dropCR(cur) >>)
       ELSE IF Head(bytes) = LF
       THEN << dropCR(cur) >> \o ScanLines(Tail(bytes), << >>)
       ELSE ScanLines(Tail(bytes), cur \o << Head(bytes) >>)

\* mbcs.Utf8ToAnsi: every character of the model's alphabet goes back to
\* the bytes it was read from
Utf8ToAnsi(text) == text

RECURSIVE RebuildAll(_, _)
RebuildAll(rows, comma) ==
    IF rows = << >> THEN << >>
    ELSE Rebuild(Head(rows), comma) \o RebuildAll(Tail(rows), comma)

RECURSIVE AnsiLines(_)
AnsiLines(tokens) ==
    IF tokens = << >> THEN << >>
    ELSE Utf8ToAnsi(Head(tokens)) \o << CR, LF >> \o AnsiLines(Tail(tokens))

writeCsvTo(rows, m) ==
    IF m.ansi
    THEN AnsiLines(ScanLines(RebuildAll(rows, m.Comma), << >>))
    ELSE (IF m.bom THEN << BOM >> ELSE << >>) \o RebuildAll(rows, m.Comma)

(***************************************************************************)
(* The row list and its handles (RowPtr): a handle names a row by its      *)
(* identity and carries the line number it was reached with.               *)
(***************************************************************************)
Pos(lines, id) ==
    IF \E i \in 1..Len(lines) : lines[i].id = id
    THEN CHOOSE i \in 1..Len(lines) : lines[i].id = id
    ELSE 0

RowOf(lines, h) == lines[Pos(lines, h.id)]

Front(lines) ==
    IF lines = << >> THEN NilPtr ELSE [id |-> lines[1].id, lnum |-> 0]

Back(lines) ==
    IF lines = << >> THEN NilPtr
    ELSE [id |-> lines[Len(lines)].id, lnum |-> Len(lines) - 1]

NextPtr(lines, h) ==
    LET p == Pos(lines, h.id)
    IN IF p = 0 \/ p = Len(lines) THEN NilPtr
       ELSE [id |-> lines[p + 1].id, lnum |-> h.lnum + 1]

PrevPtr(lines, h) ==
    LET p == Pos(lines, h.id)
    IN IF p <= 1 THEN NilPtr
       ELSE [id |-> lines[p - 1].id, lnum |-> h.lnum - 1]

\* the identity given to the next row that enters the list
NewId(lines, removed) == Len(lines) + Len(removed) + 1

\* app.Push: append a row at the tail
Push(lines, removed, row) ==
    Append(lines, [id |-> NewId(lines, removed), Cell |-> row.Cell, Term |-> row.Term])

SetRow(lines, h, row) ==
    [lines EXCEPT ![Pos(lines, h.id)] =
        [id |-> h.id, Cell |-> row.Cell, Term |-> row.Term]]

\* RowPtr.InsertAfter / InsertBefore: splice a row next to the handle's row;
\* the result is the list and the handle of the new row
InsertAfter(lines, removed, h, row) ==
    LET id == NewId(lines, removed)
    IN [lines |-> InsertAt(lines, Pos(lines, h.id) + 1,
                           [id |-> id, Cell |-> row.Cell, Term |-> row.Term]),
        ptr   |-> [id |-> id, lnum |-> h.lnum + 1]]

InsertBefore(lines, removed, h, row) ==
    LET id == NewId(lines, removed)
    IN [lines |-> InsertAt(lines, Pos(lines, h.id),
                           [id |-> id, Cell |-> row.Cell, Term |-> row.Term]),
        ptr   |-> [id |-> id, lnum |-> h.lnum]]

\* RowPtr.Remove: detach the handle's row
Remove(lines, h) == RemoveAt(lines, Pos(lines, h.id))

(***************************************************************************)
(* searchForward / searchBackward (src/unnamed/part_001:257-287), on the   *)
(* row list: r is a position in the list, c a cell index.                  *)
(***************************************************************************)
\* no direct call of a function has been made
NoProbe == [stage |-> "none"]

NotFound == [found |-> FALSE, ptr |-> NilPtr, col |-> 0]

RECURSIVE SearchFwd(_, _, _, _, _)
SearchFwd(lines, h, r, c, word) ==
    IF r > Len(lines) THEN NotFound
    ELSE IF c < Len(lines[r].Cell)
    THEN IF HasSub(lines[r].Cell[c + 1].text, word)
         THEN [found |-> TRUE,
               ptr |-> [id |-> lines[r].id, lnum |-> h.lnum + (r - Pos(lines, h.id))],
               col |-> c]
         ELSE SearchFwd(lines, h, r, c + 1, word)
    ELSE SearchFwd(lines, h, r + 1, 0, word)

searchForward_FromCursor(lines, h, c, word) ==
    SearchFwd(lines, h, Pos(lines, h.id), c, word)

searchForward(lines, h, c, word) == SearchFwd(lines, h, Pos(lines, h.id), c + 1, word)

RECURSIVE SearchBwd(_, _, _, _, _)
SearchBwd(lines, h, r, c, word) ==
    IF c >= 0
    THEN IF HasSub(lines[r].Cell[c + 1].text, word)
         THEN [found |-> TRUE,
               ptr |-> [id |-> lines[r].id, lnum |-> h.lnum + (r - Pos(lines, h.id))],
               col |-> c]
         ELSE SearchBwd(lines, h, r, c - 1, word)
    ELSE IF r - 1 < 1 THEN NotFound
    ELSE SearchBwd(lines, h, r - 1, Len(lines[r - 1].Cell) - 1, word)

searchBackward(lines, h, c, word) == SearchBwd(lines, h, Pos(lines, h.id), c - 1, word)

(***************************************************************************)
(* The search functions called directly on a document given as rows of     *)
(* cell texts; r and c count from 0 as in the code, and a failed search    *)
(* returns the indexes the loops ended with.                               *)
(***************************************************************************)
RECURSIVE ForwardLoop(_, _, _, _)
ForwardLoop(csvlines, r, c, target) ==
    IF r >= Len(csvlines) THEN [found |-> FALSE, r |-> r, c |-> c]
    ELSE IF c < Len(csvlines[r + 1])
    THEN IF HasSub(csvlines[r + 1][c + 1], target)
         THEN [found |-> TRUE, r |-> r, c |-> c]
         ELSE ForwardLoop(csvlines, r, c + 1, target)
    ELSE ForwardLoop(csvlines, r + 1, 0, target)

searchForwardAt(csvlines, r, c, target) == ForwardLoop(csvlines, r, c + 1, target)

RECURSIVE BackwardLoop(_, _, _, _)
BackwardLoop(csvlines, r, c, target) ==
    IF c >= 0
    THEN IF HasSub(csvlines[r + 1][c + 1], target)
         THEN [found |-> TRUE, r |-> r, c |-> c]
         ELSE BackwardLoop(csvlines, r, c - 1, target)
    ELSE IF r - 1 < 0 THEN [found |-> FALSE, r |-> r - 1, c |-> c]
    ELSE BackwardLoop(csvlines, r - 1, Len(csvlines[r]) - 1, target)

searchBackwardAt_FromStartCell(csvlines, r, c, target) == BackwardLoop(csvlines, r, c, target)

searchBackwardAt(csvlines, r, c, target) == BackwardLoop(csvlines, r, c - 1, target)

(***************************************************************************)
(* The choice of the field delimiter at start-up                           *)
(* (src/unnamed/part_001:951-966).  args are the file arguments, a file    *)
(* name a sequence of characters.                                          *)
(***************************************************************************)
TAB == "\t"

\* strings.ToLower on the letters that occur in the names drawn
ToLowerChar(ch) ==
    IF ch = "A" THEN "a" ELSE IF ch = "C" THEN "c" ELSE IF ch = "S" THEN "s"
    ELSE IF ch = "V" THEN "v" ELSE ch

ToLower(name) == [i \in 1..Len(name) |-> ToLowerChar(name[i])]

HasSuffix(name, suffix) ==
    /\ Len(name) >= Len(suffix)
    /\ SubSeq(name, Len(name) - Len(suffix) + 1, Len(name)) = suffix

selectComma(args, flagTsv, flagCsv, isTerminal) ==
    IF Len(args) <= 0 /\ isTerminal THEN TAB
    ELSE LET c1 == IF Len(args) >= 1
                      /\ ~HasSuffix(ToLower(args[1]), << ".", "c", "s", "v" >>)
                   THEN TAB ELSE ","
             c2 == IF flagTsv THEN TAB ELSE c1
         IN IF flagCsv THEN "," ELSE c2

(***************************************************************************)
(* Widths of what is shown (replaceTable, go-runewidth).                   *)
(***************************************************************************)
\* the escape character
ESC == "ESC"

\* replaceTable (src/main.go:52-56): control characters are shown as pictures
ReplaceChar(ch) ==
    IF ch = CR THEN "<CR>" ELSE IF ch = LF THEN "<LF>"
    ELSE IF ch = TAB THEN "<HT>" ELSE IF ch = ESC THEN "<ESC>" ELSE ch

ReplaceAll(text) == [i \in 1..Len(text) |-> ReplaceChar(text[i])]

\* runewidth.RuneWidth: "W" stands for a character two columns wide; a
\* control character takes no column
RuneWidth(ch) ==
    IF ch = "W" THEN 2 ELSE IF ch \in { CR, LF, TAB, ESC } THEN 0 ELSE 1

\* runewidth.StringWidth
RECURSIVE StringWidth(_)
StringWidth(s) == IF s = << >> THEN 0 ELSE RuneWidth(Head(s)) + StringWidth(Tail(s))

\* cutStrInWidth (src/unnamed/part_001:35-45): the longest prefix that fits
RECURSIVE cutStrInWidth(_, _)
cutStrInWidth(s, cellwidth) ==
    IF s = << >> THEN << >>
    ELSE IF RuneWidth(Head(s)) > cellwidth THEN << >>
    ELSE << Head(s) >> \o cutStrInWidth(Tail(s), cellwidth - RuneWidth(Head(s)))

\* the longest prefix of s that fits in w columns, as runewidth.Truncate
\* takes it: a character of no width is taken as long as the width fits
RECURSIVE Fitting(_, _)
Fitting(s, w) ==
    IF s = << >> \/ RuneWidth(Head(s)) > w THEN << >>
    ELSE << Head(s) >> \o Fitting(Tail(s), w - RuneWidth(Head(s)))

\* runewidth.Truncate(s, w, tail): s if it fits in w columns, else the prefix
\* that leaves room for the tail, and the tail
Truncate(s, w, tail) ==
    IF StringWidth(s) <= w THEN s
    ELSE Fitting(s, w - StringWidth(tail)) \o tail

(***************************************************************************)
(* Messages, prompts and the validation hook.                              *)
(***************************************************************************)
Msg(kind, arg) == [kind |-> kind, arg |-> arg]
NoMessage      == Msg("", << >>)

\* the mark printStatusLine shows for a last cell without line terminator
EofMark == "<eof>"

\* the three dots runewidth.Truncate puts where it cut the cell
Ellipsis == << ".", ".", "." >>

Blank ==
    [kind |-> "blank", msg |-> NoMessage, cols |-> 0, comma |-> "", term |-> << >>,
     bom |-> "", enc |-> "", col |-> 0, lnum |-> 0, rows |-> 0, cell |-> << >>]

\* the number of digits of %d, for a number that is not negative
RECURSIVE DecWidth(_)
DecWidth(n) == IF n < 10 THEN 1 ELSE 1 + DecWidth(n \div 10)

\* printStatusLine (src/main.go:254-298): the delimiter and terminator tags,
\* the tags of a byte order mark and of a code-page source and, for a valid
\* cursor column, the position, the row count and the cell as it is written,
\* followed by what follows it in the row; cell and what follows it are cut
\* with three dots to the columns the tags and the position leave
printStatusLine(m, lines, cur, col, screenWidth) ==
    LET row   == RowOf(lines, cur)
        valid == 0 <= col /\ col < Len(row.Cell)
        comma == IF m.Comma = TAB THEN "[TSV]"
                 ELSE IF m.Comma = "," THEN "[CSV]" ELSE ""
        n     == (IF comma = "" THEN 0 ELSE 5)
                 + (IF row.Term = << CR, LF >> THEN 6
                    ELSE IF row.Term = << LF >> THEN 4
                    ELSE IF row.Term = << >> THEN 5 ELSE 0)
                 + (IF m.bom THEN 5 ELSE 0)
                 + (IF m.ansi THEN 6 ELSE 0)
                 + 6 + DecWidth(col + 1) + DecWidth(cur.lnum + 1)
                 + DecWidth(Len(lines))
        sep   == IF col < Len(row.Cell) - 1 THEN << m.Comma >>
                 ELSE IF row.Term # << >> THEN row.Term
                 ELSE << EofMark >>
    IN [kind  |-> "status", msg |-> NoMessage, cols |-> 0,
        comma |-> comma,
        term  |-> row.Term,
        bom   |-> IF m.bom THEN "[BOM]" ELSE "",
        enc   |-> IF m.ansi THEN "[ANSI]" ELSE "",
        col   |-> IF valid THEN col + 1 ELSE 0,
        lnum  |-> IF valid THEN cur.lnum + 1 ELSE 0,
        rows  |-> IF valid THEN Len(lines) ELSE 0,
        cell  |-> IF valid
                  THEN Truncate(ReplaceAll(SourceText(row.Cell[col + 1]) \o sep),
                                screenWidth - n, Ellipsis)
                  ELSE << >>]

msgReadOnly      == "Read Only Mode !"
msgProtectHeader == "Header is protected"
msgColumnFixed   == "The order of Columns is fixed !"
msgInvalid       == "rejected by OnCellValidated"

\* the columns of the fixed part of a message
KindWidth(kind) ==
    IF kind = msgReadOnly THEN 16
    ELSE IF kind = msgProtectHeader THEN 19
    ELSE IF kind = msgColumnFixed THEN 31
    ELSE IF kind = msgInvalid THEN 27
    ELSE IF kind = "yanked the current cell: " THEN 25
    ELSE IF kind = "pasted: " THEN 8
    ELSE IF kind = ": not found" THEN 11
    ELSE IF kind = "EOF" THEN 3
    ELSE 0

\* a message as the characters it is written with: the fixed part stands as
\* one "." for each of its columns, and the word searched for comes first
MsgText(msg) ==
    LET fixed == [i \in 1..KindWidth(msg.kind) |-> "."]
    IN IF msg.kind = ": not found" THEN msg.arg \o fixed ELSE fixed \o msg.arg

\* the last line of a frame (src/main.go:501-507): the message if there is
\* one, cut to the width of the screen less one and shown in its first cols
\* columns, the status line otherwise
FrameStatus(m, lines, cur, col, msg, screenWidth) ==
    IF msg # NoMessage
    THEN [Blank EXCEPT !.kind = "message", !.msg = msg,
                       !.cols = StringWidth(Truncate(MsgText(msg), screenWidth - 1,
                                                     << >>))]
    ELSE IF 0 <= cur.lnum /\ cur.lnum < Len(lines)
    THEN printStatusLine(m, lines, cur, col, screenWidth)
    ELSE Blank

\* texts a user types into a prompt
Texts == { << >>, << "a" >>, << "," >> }

\* the text the hook may put in the place of the proposed one
HookText == << "v" >>

\* Pilot.ReadLine: a text, or an error (Escape) together with some text
PromptResults == [err : BOOLEAN, text : tty.texts]

\* the error a prompt ends with: readline.CtrlC when the user cancels, or
\* another one, such as io.EOF when the input is closed
PromptError(p) == IF p.err THEN { "CtrlC", "EOF" } ELSE { "nil" }

\* Config.validate (src/main.go:339-348): without a hook the text itself;
\* with a hook whatever the hook answers
validate(c, text) ==
    IF c.hook = "nil"
    THEN { [ok |-> TRUE, text |-> text] }
    ELSE { [ok |-> TRUE, text |-> text], [ok |-> TRUE, text |-> HookText],
           [ok |-> FALSE, text |-> text] }

\* Config.checkWriteProtect (src/main.go:381-393)
checkWriteProtect(c, h) ==
    IF c.ProtectHeader /\ h.lnum < c.HeaderLines THEN msgProtectHeader
    ELSE IF c.ReadOnly THEN msgReadOnly
    ELSE ""

\* Config.checkWriteProtectAndColumn (src/main.go:395-405)
checkWriteProtectAndColumn(c, h) ==
    IF checkWriteProtect(c, h) # "" THEN checkWriteProtect(c, h)
    ELSE IF c.FixColumn THEN msgColumnFixed
    ELSE ""

(***************************************************************************)
(* Ingestion.                                                              *)
(***************************************************************************)
\* the initial prefetch (src/main.go:442-458): [lines, input, fetch]
RECURSIVE Prefetch(_, _, _, _)
Prefetch(lines, bytes, comma, i) ==
    IF i >= PrefetchRows
    THEN [lines |-> lines, input |-> bytes, fetch |-> TRUE]
    ELSE LET r == ReadLine(bytes, comma)
         IN IF r.eof
            THEN [lines |-> IF isEmptyRow(r.row) THEN lines
                            ELSE Push(lines, << >>, r.row),
                  input |-> r.rest, fetch |-> FALSE]
            ELSE Prefetch(Push(lines, << >>, r.row), r.rest, comma, i + 1)

IngestStep_AtFront(lines, removed, bytes, comma) ==
    LET r == ReadLine(bytes, comma)
        row == [id |-> NewId(lines, removed), Cell |-> r.row.Cell, Term |-> r.row.Term]
    IN IF r.eof
       THEN [lines |-> IF isEmptyRow(r.row) THEN lines ELSE << row >> \o lines,
             input |-> r.rest, fetch |-> FALSE]
       ELSE [lines |-> << row >> \o lines, input |-> r.rest, fetch |-> TRUE]

IngestStep_NeverExhausted(lines, removed, bytes, comma) ==
    LET r == ReadLine(bytes, comma)
    IN [lines |-> IF r.eof /\ isEmptyRow(r.row) THEN lines
                  ELSE Push(lines, removed, r.row),
        input |-> r.rest, fetch |-> TRUE]

\* the idle ingestion step (src/main.go:514-534): [lines, input, fetch]
IngestStep(lines, removed, bytes, comma) ==
    LET r == ReadLine(bytes, comma)
    IN IF r.eof
       THEN [lines |-> IF isEmptyRow(r.row) THEN lines
                       ELSE Push(lines, removed, r.row),
             input |-> r.rest, fetch |-> FALSE]
       ELSE [lines |-> Push(lines, removed, r.row), input |-> r.rest,
             fetch |-> TRUE]

\* the drain of the w command (src/main.go:824-836): every row the reader
\* delivers is pushed, the one delivered with the end of the input included,
\* and fetch is left as it is
RECURSIVE Drain(_, _, _, _)
Drain(lines, removed, bytes, comma) ==
    LET r == ReadLine(bytes, comma)
    IN IF r.eof
       THEN [lines |-> Push(lines, removed, r.row), input |-> r.rest]
       ELSE Drain(Push(lines, removed, r.row), removed, r.rest, comma)

(***************************************************************************)
(* Rendering (drawLine, drawPage, _View.Draw).  A rendered line is the     *)
(* sequence of the strings written: a token [k, s, n] is an escape         *)
(* sequence named by k, a text s (k = "text") or a move to column n        *)
(* (k = "goto").  Writing the empty string writes nothing, so that two     *)
(* lines are the same tokens exactly when they are the same bytes.         *)
(***************************************************************************)
Esc(k)    == [k |-> k, s |-> << >>, n |-> 0]
TextTok(s) == [k |-> "text", s |-> s, n |-> 0]
Goto(n)   == [k |-> "goto", s |-> << >>, n |-> n]

EraseLine    == Esc("ESC[K")
UnderlineOn  == Esc("ESC[4m")
UnderlineOff == Esc("ESC[24m")

\* bodyColorStyle and headColorStyle (src/main.go:40-50)
bodyColorStyle ==
    [Cursor |-> << Esc("ESC[107;30;22m"), Esc("ESC[40;37m") >>,
     Even   |-> << Esc("ESC[48;5;235;37;1m"), Esc("ESC[22;40m") >>,
     Odd    |-> << Esc("ESC[40;37;1m"), Esc("ESC[22m") >>]

headColorStyle ==
    [Cursor |-> << Esc("ESC[107;30;22m"), Esc("ESC[40;36m") >>,
     Even   |-> << Esc("ESC[48;5;235;36;1m"), Esc("ESC[22;40m") >>,
     Odd    |-> << Esc("ESC[40;36;1m"), Esc("ESC[22m") >>]

\* the inner loop of drawLine (src/main.go:93-97): the index after the empty
\* cells that follow, the cursor's cell excepted
RECURSIVE MergeEnd_PastCursor(_, _, _)
MergeEnd_PastCursor(csvs, nextI, cursorPos) ==
    IF nextI < Len(csvs) /\ csvs[nextI + 1].text = << >>
    THEN MergeEnd_PastCursor(csvs, nextI + 1, cursorPos)
    ELSE nextI

RECURSIVE MergeEnd(_, _, _)
MergeEnd(csvs, nextI, cursorPos) ==
    IF nextI < Len(csvs) /\ csvs[nextI + 1].text = << >> /\ nextI # cursorPos
    THEN MergeEnd(csvs, nextI + 1, cursorPos)
    ELSE nextI

\* the loop of drawLine (src/main.go:86-130) from cell i on, with screenWidth
\* columns left
RECURSIVE DrawCells(_, _, _, _, _, _)
DrawCells(csvs, i, cellWidth, screenWidth, cursorPos, base) ==
    IF i >= Len(csvs) THEN << >>
    ELSE LET cursor == csvs[i + 1]
             nextI  == MergeEnd(csvs, i + 1, cursorPos)
             cw0    == cellWidth * (nextI - i)
             cw     == IF cw0 > screenWidth \/ nextI >= Len(csvs) THEN screenWidth
                       ELSE cw0
             ss     == cutStrInWidth(ReplaceAll(cursor.text), cw)
             toks   == (IF i = cursorPos THEN << base.Cursor[1] >> ELSE << >>)
                       \o (IF cursor.modified THEN << UnderlineOn >> ELSE << >>)
                       \o (IF ss = << >> THEN << >> ELSE << TextTok(ss) >>)
                       \o (IF cursor.modified THEN << UnderlineOff >> ELSE << >>)
                       \o (IF i = cursorPos THEN << EraseLine, base.Normal[1] >>
                           ELSE << >>)
         IN IF screenWidth - cw <= 0 THEN toks
            ELSE toks \o << Goto(nextI * cellWidth + 1) >>
                      \o (IF i = cursorPos THEN << EraseLine >> ELSE << >>)
                      \o DrawCells(csvs, nextI, cellWidth, screenWidth - cw,
                                   cursorPos, base)

\* drawLine (src/main.go:60-130): the bytes it writes for one screen line
drawLine(csvs, cellWidth, screenWidth, cursorPos, reverse, style) ==
    IF Len(csvs) <= 0 /\ cursorPos >= 0
    THEN << style.Cursor[1], EraseLine, style.Cursor[2] >>
    ELSE LET normal == IF reverse THEN style.Odd ELSE style.Even
             base   == [Cursor |-> style.Cursor, Normal |-> normal]
         IN << normal[1], EraseLine >>
            \o DrawCells(csvs, 0, cellWidth, screenWidth, cursorPos, base)
            \o << normal[2] >>


\* the line break drawPage writes between and after the lines
CRLF == Esc("CRLF")

\* cellsAfter (src/main.go:175-181)
cellsAfter(cells, n) ==
    IF n <= Len(cells) THEN SubSeq(cells, n + 1, Len(cells)) ELSE << >>

\* a cache (map[int]string) as its lookups: the line kept for each screen-row
\* index, the empty string where the map has no entry; SetCache is the
\* assignment cache[count] = line, which makes the entry if there is none
CacheAt(cache, count) == IF count < Len(cache) THEN cache[count + 1] ELSE << >>

SetCache(cache, count, line) ==
    [i \in 1..(IF count < Len(cache) THEN Len(cache) ELSE count + 1) |->
        IF i = count + 1 THEN line ELSE CacheAt(cache, i - 1)]

\* the callback of drawPage (src/main.go:147-167) from record number count on:
\* what is written and the cache afterwards
RECURSIVE DrawRecords_NoCompare(_, _, _, _, _, _, _, _, _)
DrawRecords_NoCompare(page, count, cellWidth, csrpos, csrlin, w, h, style, cache) ==
    IF count >= Len(page) \/ count >= h
    THEN [out |-> << >>, cache |-> cache, count |-> count]
    ELSE LET cursorPos == IF count = csrlin THEN csrpos ELSE -1
             line == drawLine(page[count + 1], cellWidth, w, cursorPos,
                              count % 2 = 1, style)
             rest == DrawRecords_NoCompare(page, count + 1, cellWidth, csrpos, csrlin,
                                           w, h, style, SetCache(cache, count, line))
         IN [rest EXCEPT !.out = (IF count > 0 THEN << CRLF >> ELSE << >>)
                                     \o line \o rest.out]

RECURSIVE DrawRecords(_, _, _, _, _, _, _, _, _)
DrawRecords(page, count, cellWidth, csrpos, csrlin, w, h, style, cache) ==
    IF count >= Len(page) \/ count >= h
    THEN [out |-> << >>, cache |-> cache, count |-> count]
    ELSE LET cursorPos == IF count = csrlin THEN csrpos ELSE -1
             line == drawLine(page[count + 1], cellWidth, w, cursorPos,
                              count % 2 = 1, style)
             hit  == CacheAt(cache, count) = line
             rest == DrawRecords(page, count + 1, cellWidth, csrpos, csrlin, w, h,
                                 style,
                                 IF hit THEN cache ELSE SetCache(cache, count, line))
         IN [rest EXCEPT !.out = (IF count > 0 THEN << CRLF >> ELSE << >>)
                                     \o (IF hit THEN << >> ELSE line) \o rest.out]

\* drawPage (src/main.go:143-173); page is the sequence of records the
\* enumerator delivers
drawPage(page, cellWidth, csrpos, csrlin, w, h, style, cache) ==
    LET d == DrawRecords(page, 0, cellWidth, csrpos, csrlin, w, h, style, cache)
    IN [out     |-> d.out \o << CRLF >>,
        cache   |-> d.cache,
        lfCount |-> (IF d.count > 0 THEN d.count - 1 ELSE 0) + 1]

\* the rows of the document from line number n on, cut at the start column
RowsFrom(lines, n, sCol) ==
    [i \in 1..(Len(lines) - n) |-> cellsAfter(lines[n + i].Cell, sCol)]

\* _View.Draw (src/main.go:200-241): view is [headCache, bodyCache], start
\* and cur are the line numbers of startRow and cursorRow
Draw(view, lines, start, cur, cellWidth, headerLines, sCol, cCol, screenHeight, screenWidth) ==
    LET head   == IF headerLines > 0
                  THEN drawPage(SubSeq(RowsFrom(lines, 0, sCol), 1,
                                       IF headerLines < Len(lines) THEN headerLines
                                       ELSE Len(lines)),
                                cellWidth, cCol - sCol, cur,
                                screenWidth - 1, headerLines, headColorStyle,
                                view.headCache)
                  ELSE [out |-> << >>, cache |-> view.headCache, lfCount |-> 0]
        start1 == IF start < headerLines THEN start + headerLines ELSE start
        style  == IF headerLines % 2 = 1
                  THEN [Cursor |-> bodyColorStyle.Cursor,
                        Even   |-> bodyColorStyle.Odd,
                        Odd    |-> bodyColorStyle.Even]
                  ELSE bodyColorStyle
        body   == IF start1 >= Len(lines)
                  THEN [out |-> << >>, cache |-> view.bodyCache, lfCount |-> 0]
                  ELSE drawPage(RowsFrom(lines, start1, sCol), cellWidth,
                                cCol - sCol, cur - start1,
                                screenWidth - 1, screenHeight - 1, style,
                                view.bodyCache)
    IN [out       |-> head.out \o body.out,
        headCache |-> head.cache,
        bodyCache |-> body.cache,
        lfCount   |-> head.lfCount + body.lfCount]

\* _View.clearCache (src/main.go:194-197)
clearCache(view) == [headCache |-> << >>, bodyCache |-> << >>]


\* what was written, cut at the line breaks: one piece per screen line
RECURSIVE Pieces(_, _)
Pieces(out, acc) ==
    IF out = << >> THEN << >>
    ELSE IF Head(out) = CRLF THEN << acc >> \o Pieces(Tail(out), << >>)
    ELSE Pieces(Tail(out), Append(acc, Head(out)))

(***************************************************************************)
(* The terminal.  The view keeps the caches of the lines it has drawn; the *)
(* screen is what each line of the terminal shows, counted from the line   *)
(* the first frame started on: a rendered line, the status line (or the    *)
(* prompt written over it), or nothing where the line was erased.  The     *)
(* terminal of a session is recorded only when it is watched; the program  *)
(* never reads it back.  A watched terminal receives what a turn wrote in  *)
(* the step that draws the next frame.                                     *)
(***************************************************************************)
\* newView (src/main.go:187-193)
newView == [headCache |-> << >>, bodyCache |-> << >>]

\* a line that holds the status line, a message or a prompt
StatusShown == << Esc("STATUS") >>

\* the last call of repaint: the screen it left and the lines it had to show
NoPaint == [screen |-> << >>, lines |-> << >>]

\* what a turn has written and the terminal has not yet received: the call of
\* repaint() with the document and the cursor it drew, and whether
\* view.clearCache() was called
NoPending ==
    [paint |-> [on |-> FALSE, lines |-> << >>, start |-> NilPtr, cur |-> NilPtr,
                scol |-> 0, col |-> 0],
     clear |-> FALSE]

Terminal(watched) ==
    [watched |-> watched, view |-> newView, screen |-> << >>, lfCount |-> 0,
     paint |-> NoPaint, pending |-> NoPending]

\* the lines written go over what the screen showed; a line for which
\* nothing was written stays as it was
WriteLines(screen, pieces) ==
    [k \in 1..(IF Len(screen) < Len(pieces) THEN Len(pieces) ELSE Len(screen)) |->
        IF k <= Len(pieces) /\ pieces[k] # << >> THEN pieces[k]
        ELSE IF k <= Len(screen) THEN screen[k]
        ELSE << >>]

\* a call of view.Draw from the top line of the grid (src/main.go:496, 499)
DrawCall(T, lines, start, cur, sCol, cCol) ==
    Draw(T.view, lines, start.lnum, cur.lnum, tty.cellWidth, cfg.HeaderLines,
         sCol, cCol, tty.h - cfg.HeaderLines, tty.w)

\* the terminal after a call of view.Draw that returned d: the view keeps the
\* caches, the screen the lines written
Drawn(T, d) ==
    [T EXCEPT !.view    = [headCache |-> d.headCache, bodyCache |-> d.bodyCache],
              !.screen  = WriteLines(@, Pieces(d.out, << >>)),
              !.lfCount = d.lfCount]

\* the lines a call of view.Draw has to show: what it writes on a view with
\* empty caches
Rendered(lines, start, cur, sCol, cCol) ==
    Pieces(Draw(newView, lines, start.lnum, cur.lnum, tty.cellWidth,
                cfg.HeaderLines, sCol, cCol, tty.h - cfg.HeaderLines, tty.w).out,
           << >>)

\* the frame at the head of the loop (src/main.go:496-509): the grid, then
\* the status line on the line below it, then the rest of the screen erased
Framed(T, d) ==
    [Drawn(T, d) EXCEPT !.screen = SubSeq(@, 1, d.lfCount) \o << StatusShown >>]

\* repaint() before a prompt (src/main.go:497-500, 647, 678, 758): the grid
\* is drawn again on the caches as they are, and the prompt is written on the
\* line below the grid; shown is what the grid had to show
Repainted(T, d, shown) ==
    [Drawn(T, d) EXCEPT
        !.paint  = [screen |-> SubSeq(WriteLines(T.screen, Pieces(d.out, << >>)),
                                      1, d.lfCount),
                    lines  |-> shown],
        !.screen = [k \in 1..(IF Len(@) < d.lfCount + 1
                              THEN d.lfCount + 1 ELSE Len(@)) |->
                       IF k = d.lfCount + 1 THEN StatusShown
                       ELSE @[k]]]

\* repaint() and view.clearCache() in a handler (src/main.go:647-648,
\* 678-679, 758-759), with the document and the cursor as they are then
Repaint(S) ==
    [S EXCEPT !.term.pending =
        [paint |-> [on |-> TRUE, lines |-> S.lines, start |-> S.start,
                    cur |-> S.cur, scol |-> S.scol, col |-> S.col],
         clear |-> TRUE]]

\* view.clearCache() before a prompt on the status line (src/main.go:554,
\* 609, 720, 744, 781, 840)
ClearCache(S) == [S EXCEPT !.term.pending.clear = TRUE]

\* the frame at the head of the loop on a terminal that has received what
\* the turn wrote; view.clearCache() of the turn comes after its repaint()
Cleared(T) ==
    [T EXCEPT !.view = IF T.pending.clear THEN clearCache(@) ELSE @,
              !.pending = NoPending]

(***************************************************************************)
(* The command handlers of Config.edit.  A handler maps the state S at     *)
(* dispatch (message already reset) and the answers of the collaborators   *)
(* to the state before the clamp and scroll step.                          *)
(***************************************************************************)
\* what Config.validate answered in this turn, if it was called
NoCall == [called |-> FALSE, ok |-> FALSE, text |-> << >>]

Validated(S, v) == [S EXCEPT !.val = [called |-> TRUE, ok |-> v.ok, text |-> v.text]]

\* the text a search prompt was answered with in this turn, if one was
NoText == [done |-> FALSE, text |-> << >>, dir |-> "fwd"]

\* the term and direction of the last search prompt that was completed
NoSearch == [word |-> << >>, dir |-> "fwd"]

\* the record of a turn: its key, how the command ended (res), the call of
\* the hook (val), the answer to a yes/no question ("none" when none was
\* asked) and the last completed search prompt
Event(key, res, val, asked, search) ==
    [key |-> key, res |-> res, val |-> val, asked |-> asked, search |-> search]

AtDispatch ==
    [lines |-> csvLines, removed |-> removedRows, cur |-> cursorRow,
     col |-> cursorCol, start |-> startRow, scol |-> startCol,
     msg |-> NoMessage, word |-> lastWord, dir |-> lastSearch,
     kill |-> killbuffer, files |-> files, fetch |-> fetch, input |-> input,
     pc |-> "loop", res |-> "none", val |-> NoCall, asked |-> "none",
     typed |-> NoText, term |-> term, ended |-> source.ended]

Protected(S, m) == [S EXCEPT !.msg = Msg(m, << >>), !.res = "protected"]

\* the padding loop of FixColumn (src/main.go:641-645, 667-671)
RECURSIVE Pad(_, _, _)
Pad(row, n, comma) ==
    IF Len(row.Cell) < n THEN Pad(RowInsert(row, 0, << >>, comma), n, comma) ELSE row

\* the tail shared by o and O: prompt, validate, replace (649-659, 680-689)
NewLineText(S, p, v) ==
    LET row    == RowOf(S.lines, S.cur)
        newCol == IF S.col >= Len(row.Cell) THEN Len(row.Cell) - 1 ELSE S.col
    IN IF ~v.ok
       THEN [Validated(S, v) EXCEPT !.msg = Msg(msgInvalid, << >>), !.res = "reject"]
       ELSE [Validated(S, v) EXCEPT
                 !.lines = SetRow(S.lines, S.cur,
                                  RowReplace(row, newCol, v.text, mode.Comma)),
                 !.res = IF p.err THEN "cancel" ELSE "ok"]

\* o that leaves the terminator of the cursor row as it is
HandleO_KeepsEmptyTerm(S, p, v) ==
    IF checkWriteProtect(cfg, S.cur) # ""
    THEN Protected(S, checkWriteProtect(cfg, S.cur))
    ELSE LET row    == RowOf(S.lines, S.cur)
             new0   == [NewRow(mode) EXCEPT !.Term = row.Term]
             new1   == IF cfg.FixColumn THEN Pad(new0, Len(row.Cell), mode.Comma) ELSE new0
             ins    == InsertAfter(S.lines, S.removed, S.cur, new1)
         IN NewLineText(Repaint([S EXCEPT !.lines = ins.lines, !.cur = ins.ptr]), p, v)

\* case "o" (src/main.go:631-659)
HandleO(S, p, v) ==
    IF checkWriteProtect(cfg, S.cur) # ""
    THEN Protected(S, checkWriteProtect(cfg, S.cur))
    ELSE LET row    == RowOf(S.lines, S.cur)
             new0   == [NewRow(mode) EXCEPT !.Term = row.Term]
             lines1 == IF row.Term = << >>
                       THEN SetRow(S.lines, S.cur, [row EXCEPT !.Term = mode.DefaultTerm])
                       ELSE S.lines
             new1   == IF cfg.FixColumn THEN Pad(new0, Len(row.Cell), mode.Comma) ELSE new0
             ins    == InsertAfter(lines1, S.removed, S.cur, new1)
         IN NewLineText(Repaint([S EXCEPT !.lines = ins.lines, !.cur = ins.ptr]), p, v)

HandleBigO_KeepsAnchor(S, p, v) ==
    IF checkWriteProtect(cfg, S.cur) # ""
    THEN Protected(S, checkWriteProtect(cfg, S.cur))
    ELSE LET row  == RowOf(S.lines, S.cur)
             new0 == NewRow(mode)
             new1 == IF cfg.FixColumn THEN Pad(new0, Len(row.Cell), mode.Comma) ELSE new0
             ins  == InsertBefore(S.lines, S.removed, S.cur, new1)
         IN NewLineText(Repaint([S EXCEPT !.lines = ins.lines, !.cur = ins.ptr]), p, v)

\* case "O" (src/main.go:660-689)
HandleBigO(S, p, v) ==
    IF checkWriteProtect(cfg, S.cur) # ""
    THEN Protected(S, checkWriteProtect(cfg, S.cur))
    ELSE LET row        == RowOf(S.lines, S.cur)
             startPrevP == PrevPtr(S.lines, S.start)
             new0       == NewRow(mode)
             new1       == IF cfg.FixColumn THEN Pad(new0, Len(row.Cell), mode.Comma) ELSE new0
             ins        == InsertBefore(S.lines, S.removed, S.cur, new1)
             start1     == IF startPrevP # NilPtr THEN NextPtr(ins.lines, startPrevP)
                           ELSE Front(ins.lines)
         IN NewLineText(Repaint([S EXCEPT !.lines = ins.lines, !.cur = ins.ptr,
                                          !.start = start1]), p, v)

\* case "D" (src/main.go:690-714)
HandleD(S) ==
    IF checkWriteProtect(cfg, S.cur) # ""
    THEN Protected(S, checkWriteProtect(cfg, S.cur))
    ELSE IF Len(S.lines) <= 1 THEN S
    ELSE LET startPrevP == PrevPtr(S.lines, S.start)
             prevP      == PrevPtr(S.lines, S.cur)
             removedRow == RowOf(S.lines, S.cur)
             lines1     == Remove(S.lines, S.cur)
             removed1   == Append(S.removed, removedRow)
             atEnd      == prevP # NilPtr /\ NextPtr(lines1, prevP) = NilPtr
             cur1       == IF prevP = NilPtr THEN Front(lines1)
                           ELSE IF ~atEnd THEN NextPtr(lines1, prevP)
                           ELSE prevP
             lines2     == IF atEnd
                           THEN SetRow(lines1, prevP,
                                       [RowOf(lines1, prevP) EXCEPT !.Term = removedRow.Term])
                           ELSE lines1
             start1     == IF startPrevP = NilPtr THEN Front(lines2)
                           ELSE NextPtr(lines2, startPrevP)
         IN [S EXCEPT !.lines = lines2, !.removed = removed1, !.cur = cur1,
                      !.start = start1, !.res = "ok"]

\* case "i" (src/main.go:715-736)
HandleI(S, p, v) ==
    IF checkWriteProtectAndColumn(cfg, S.cur) # ""
    THEN Protected(S, checkWriteProtectAndColumn(cfg, S.cur))
    ELSE ClearCache(
         IF p.err THEN [S EXCEPT !.res = "cancel"]
         ELSE IF ~v.ok
         THEN [Validated(S, v) EXCEPT !.msg = Msg(msgInvalid, << >>), !.res = "reject"]
         ELSE LET row == RowOf(S.lines, S.cur)
              IN IF Len(row.Cell) = 1 /\ row.Cell[1].text = << >>
                 THEN [Validated(S, v) EXCEPT
                           !.lines = SetRow(S.lines, S.cur,
                                            RowReplace(row, S.col, v.text, mode.Comma)),
                           !.res = "ok"]
                 ELSE [Validated(S, v) EXCEPT
                           !.lines = SetRow(S.lines, S.cur,
                                            RowInsert(row, S.col, v.text, mode.Comma)),
                           !.col = S.col + 1, !.res = "ok"])

\* the cancelled prompt of a after the cell was inserted
\* (src/main.go:761-765), as it would be if the cell were left in the row
AppendCancelled_KeepsCell(S, row1, col1) ==
    [S EXCEPT !.lines = SetRow(S.lines, S.cur, row1),
              !.col = col1 - 1, !.res = "cancel"]

AppendCancelled(S, row1, col1) ==
    [S EXCEPT !.lines = SetRow(S.lines, S.cur, RowDelete(row1, col1)),
              !.col = col1 - 1, !.res = "cancel"]

\* case "a" (src/main.go:737-773)
HandleA(S, p, v) ==
    IF checkWriteProtectAndColumn(cfg, S.cur) # ""
    THEN Protected(S, checkWriteProtectAndColumn(cfg, S.cur))
    ELSE LET row == RowOf(S.lines, S.cur)
         IN IF Len(row.Cell) = 1 /\ row.Cell[1].text = << >>
            THEN ClearCache(
                 IF p.err THEN [S EXCEPT !.res = "cancel"]
                 ELSE IF ~v.ok
                 THEN [Validated(S, v) EXCEPT
                           !.msg = Msg(msgInvalid, << >>), !.res = "reject"]
                 ELSE [Validated(S, v) EXCEPT
                           !.lines = SetRow(S.lines, S.cur,
                                            RowReplace(row, S.col, v.text, mode.Comma)),
                           !.res = "ok"])
            ELSE LET col1 == S.col + 1
                     row1 == RowInsert(row, col1, << >>, mode.Comma)
                     R    == Repaint([S EXCEPT !.lines = SetRow(S.lines, S.cur, row1),
                                               !.col = col1])
                 IN IF p.err THEN AppendCancelled(R, row1, col1)
                    ELSE IF ~v.ok
                    THEN [Validated(R, v) EXCEPT
                              !.lines = SetRow(S.lines, S.cur, RowDelete(row1, col1)),
                              !.col = col1 - 1,
                              !.msg = Msg(msgInvalid, << >>), !.res = "reject"]
                    ELSE [Validated(R, v) EXCEPT
                              !.lines = SetRow(S.lines, S.cur,
                                               RowReplace(row1, col1, v.text, mode.Comma)),
                              !.col = col1, !.res = "ok"]

\* case "r", "R", F2 (src/main.go:774-793)
HandleR(S, p, v) ==
    IF checkWriteProtect(cfg, S.cur) # ""
    THEN Protected(S, checkWriteProtect(cfg, S.cur))
    ELSE LET row  == RowOf(S.lines, S.cur)
             q    == IsQuoted(row.Cell[S.col + 1])
             row1 == RowReplace(row, S.col, v.text, mode.Comma)
             row2 == IF q THEN [row1 EXCEPT !.Cell[S.col + 1] = Quote(@)] ELSE row1
         IN ClearCache(
            IF p.err THEN [S EXCEPT !.res = "cancel"]
            ELSE IF ~v.ok
            THEN [Validated(S, v) EXCEPT !.msg = Msg(msgInvalid, << >>), !.res = "reject"]
            ELSE [Validated(S, v) EXCEPT !.lines = SetRow(S.lines, S.cur, row2),
                                         !.res = "ok"])

\* u that types the original text back into the cell instead of restoring it
HandleU_Retypes(S) ==
    LET row == RowOf(S.lines, S.cur)
    IN [S EXCEPT !.lines = SetRow(S.lines, S.cur,
                     RowReplace(row, S.col, Decode(row.Cell[S.col + 1].original),
                                mode.Comma)),
                 !.res = "ok"]

\* case "u" (src/main.go:794-795)
HandleU(S) ==
    LET row == RowOf(S.lines, S.cur)
    IN [S EXCEPT !.lines = SetRow(S.lines, S.cur,
                                  [row EXCEPT !.Cell[S.col + 1] = Restore(@)]),
                 !.res = "ok"]

\* case "y" (src/main.go:796-798)
HandleY(S) ==
    LET text == RowOf(S.lines, S.cur).Cell[S.col + 1].text
    IN [S EXCEPT !.kill = text, !.msg = Msg("yanked the current cell: ", text),
                 !.res = "ok"]

\* case "p" (src/main.go:799-805)
HandleP(S) ==
    IF checkWriteProtect(cfg, S.cur) # ""
    THEN Protected(S, checkWriteProtect(cfg, S.cur))
    ELSE [S EXCEPT !.lines = SetRow(S.lines, S.cur,
                       RowReplace(RowOf(S.lines, S.cur), S.col, S.kill, mode.Comma)),
                   !.msg = Msg("pasted: ", S.kill), !.res = "ok"]

\* the deletion of d and x (src/main.go:811-815), as it would be without the
\* test for the last cell
DeleteCell_Always(row, col, comma) == RowDelete(row, col)

DeleteCell(row, col, comma) ==
    IF Len(row.Cell) <= 1 THEN RowReplace(row, 0, << >>, comma)
    ELSE RowDelete(row, col)

\* case "d", "x" (src/main.go:806-815)
HandleDelCell(S) ==
    IF checkWriteProtectAndColumn(cfg, S.cur) # ""
    THEN Protected(S, checkWriteProtectAndColumn(cfg, S.cur))
    ELSE [S EXCEPT !.lines = SetRow(S.lines, S.cur,
                       DeleteCell(RowOf(S.lines, S.cur), S.col, mode.Comma)),
                   !.res = "ok"]

\* a toggle that only ever adds the quotes
HandleQuote_NeverUnquotes(S) ==
    LET row == RowOf(S.lines, S.cur)
    IN [S EXCEPT !.lines = SetRow(S.lines, S.cur,
                     [row EXCEPT !.Cell[S.col + 1] = Quote(@)]),
                 !.res = "ok"]

\* case "\"" (src/main.go:816-822)
HandleQuote(S) ==
    LET row  == RowOf(S.lines, S.cur)
        cell == row.Cell[S.col + 1]
    IN [S EXCEPT !.lines = SetRow(S.lines, S.cur,
                     IF IsQuoted(cell)
                     THEN RowReplace(row, S.col, cell.text, mode.Comma)
                     ELSE [row EXCEPT !.Cell[S.col + 1] = Quote(cell)]),
                 !.res = "ok"]

cmdWrite_NoQuestion(S, p, yes) ==
    LET bytes == writeCsvTo(S.lines, mode)
    IN IF p.err THEN [S EXCEPT !.res = "cancel"]
       ELSE IF p.name = "-"
       THEN [S EXCEPT !.files.stdout = Append(S.files.stdout, bytes), !.res = "ok"]
       ELSE [S EXCEPT !.files.f = bytes, !.res = "ok"]

cmdWrite_BackupEveryTime(S, p, yes) ==
    LET bytes == writeCsvTo(S.lines, mode)
    IN IF p.err THEN [S EXCEPT !.res = "cancel"]
       ELSE IF p.name = "-"
       THEN [S EXCEPT !.files.stdout = Append(S.files.stdout, bytes), !.res = "ok"]
       ELSE IF S.files.f = Absent
       THEN [S EXCEPT !.files.f = bytes, !.res = "ok"]
       ELSE IF S.files.overWritten
       THEN [S EXCEPT !.files.bak = S.files.f, !.files.f = bytes, !.res = "ok"]
       ELSE IF ~yes THEN [S EXCEPT !.res = "declined", !.asked = "other"]
       ELSE [S EXCEPT !.files.bak = S.files.f, !.files.overWritten = TRUE,
                      !.files.f = bytes, !.res = "ok", !.asked = "y"]

\* cmdWrite (src/unnamed/part_000:56-96): p is the answer of the "write to>"
\* prompt, p.name the name typed ("-" is the standard output, "f" the source
\* file), yes the answer to the overwrite question
cmdWrite(S, p, yes) ==
    LET bytes == writeCsvTo(S.lines, mode)
    IN IF p.err THEN [S EXCEPT !.res = "cancel"]
       ELSE IF p.name = "-"
       THEN [S EXCEPT !.files.stdout = Append(S.files.stdout, bytes), !.res = "ok"]
       ELSE IF S.files.f = Absent
       THEN [S EXCEPT !.files.f = bytes, !.res = "ok"]
       ELSE IF S.files.overWritten
       THEN [S EXCEPT !.files.f = bytes, !.res = "ok"]
       ELSE IF ~yes THEN [S EXCEPT !.res = "declined", !.asked = "other"]
       ELSE [S EXCEPT !.files.bak = S.files.f, !.files.overWritten = TRUE,
                      !.files.f = bytes, !.res = "ok", !.asked = "y"]

\* case "w" after the drain (src/main.go:837-840)
HandleW(S, p, yes) == ClearCache(cmdWrite(S, p, yes))

\* the motion keys (src/main.go:560-584)
HandleJ(S) ==
    IF NextPtr(S.lines, S.cur) # NilPtr THEN [S EXCEPT !.cur = NextPtr(S.lines, S.cur)] ELSE S

HandleK(S) ==
    IF PrevPtr(S.lines, S.cur) # NilPtr THEN [S EXCEPT !.cur = PrevPtr(S.lines, S.cur)] ELSE S

HandleH(S) == IF S.col > 0 THEN [S EXCEPT !.col = S.col - 1] ELSE S

HandleL(S) == [S EXCEPT !.col = S.col + 1]

HandleHome(S) == [S EXCEPT !.col = 0]

HandleEnd(S) == [S EXCEPT !.col = Len(RowOf(S.lines, S.cur).Cell) - 1]

HandleFirst(S) ==
    [S EXCEPT !.cur = Front(S.lines), !.start = Front(S.lines), !.col = 0, !.scol = 0]

HandleLast(S) == [S EXCEPT !.cur = Back(S.lines)]

\* the function lastSearch (forward = TRUE) or lastSearchRev stands for
Search(S, forward) ==
    IF forward THEN searchForward(S.lines, S.cur, S.col, S.word)
    ELSE searchBackward(S.lines, S.cur, S.col, S.word)

Moved(S, r) ==
    IF ~r.found THEN [S EXCEPT !.msg = Msg(": not found", S.word), !.res = "notfound"]
    ELSE [S EXCEPT !.cur = r.ptr, !.col = r.col, !.res = "ok"]

\* case "n" (src/main.go:585-595)
HandleN(S) ==
    IF S.word = << >> THEN S ELSE Moved(S, Search(S, S.dir = "fwd"))

\* case "N" (src/main.go:596-606)
HandleBigN(S) ==
    IF S.word = << >> THEN S ELSE Moved(S, Search(S, S.dir # "fwd"))

\* case "/", "?" (src/main.go:607-630)
HandleSlash(S, ch, p, e) ==
    LET S1 == [ClearCache(S) EXCEPT !.word = p.text]
    IN IF p.err
       THEN IF e = "CtrlC" THEN [S1 EXCEPT !.res = "cancel"]
            ELSE [S1 EXCEPT !.msg = Msg(e, << >>), !.res = "failed"]
       ELSE LET S2 == [S1 EXCEPT !.dir = IF ch = "/" THEN "fwd" ELSE "bwd",
                                 !.typed = [done |-> TRUE, text |-> p.text,
                                            dir |-> IF ch = "/" THEN "fwd" ELSE "bwd"]]
            IN Moved(S2, Search(S2, ch = "/"))

\* case "q", Escape (src/main.go:555-559)
HandleQ_AnyAnswer(S, yes) ==
    IF cfg.ReadOnly THEN [S EXCEPT !.pc = "quit", !.res = "ok"]
    ELSE [S EXCEPT !.pc = "quit", !.res = "ok",
                   !.asked = IF yes THEN "y" ELSE "other"]

HandleQ(S, yes) ==
    IF cfg.ReadOnly THEN [S EXCEPT !.pc = "quit", !.res = "ok"]
    ELSE IF yes THEN [S EXCEPT !.pc = "quit", !.res = "ok", !.asked = "y"]
    ELSE [S EXCEPT !.res = "declined", !.asked = "other"]

(***************************************************************************)
(* The clamp and scroll step that ends every turn (src/main.go:843-860).   *)
(***************************************************************************)
RECURSIVE ScrollBack(_, _, _)
ScrollBack(lines, h, goal) ==
    IF h = NilPtr THEN NilPtr
    ELSE IF h.lnum > goal THEN ScrollBack(lines, PrevPtr(lines, h), goal)
    ELSE h

Finish_NoClamp(S) ==
    IF S.pc # "loop" THEN S
    ELSE LET screenHeight == tty.h - cfg.HeaderLines
             cols         == (tty.w - 1) \div tty.cellWidth
             start1       == IF S.start = NilPtr THEN NilPtr
                             ELSE IF S.cur.lnum < S.start.lnum THEN S.cur
                             ELSE IF S.cur.lnum >= S.start.lnum + screenHeight - 1
                             THEN ScrollBack(S.lines, S.cur,
                                             S.cur.lnum - (screenHeight - 1) + 1)
                             ELSE S.start
             scol1        == IF S.col < S.scol THEN S.col
                             ELSE IF S.col >= S.scol + cols THEN S.col - cols + 1
                             ELSE S.scol
         IN IF start1 = NilPtr
            THEN [S EXCEPT !.pc = "panic"]
            ELSE [S EXCEPT !.start = start1, !.scol = scol1]

Finish(S) ==
    IF S.pc # "loop" THEN S
    ELSE LET L            == Len(RowOf(S.lines, S.cur).Cell)
             col1         == IF L <= 0 THEN 0 ELSE IF S.col >= L THEN L - 1 ELSE S.col
             screenHeight == tty.h - cfg.HeaderLines
             cols         == (tty.w - 1) \div tty.cellWidth
             start1       == IF S.start = NilPtr THEN NilPtr
                             ELSE IF S.cur.lnum < S.start.lnum THEN S.cur
                             ELSE IF S.cur.lnum >= S.start.lnum + screenHeight - 1
                             THEN ScrollBack(S.lines, S.cur,
                                             S.cur.lnum - (screenHeight - 1) + 1)
                             ELSE S.start
             scol1        == IF col1 < S.scol THEN col1
                             ELSE IF col1 >= S.scol + cols THEN col1 - cols + 1
                             ELSE S.scol
         IN IF start1 = NilPtr
            THEN [S EXCEPT !.col = col1, !.pc = "panic"]
            ELSE [S EXCEPT !.col = col1, !.start = start1, !.scol = scol1]

\* the text w writes over the last line before it drains the source
\* (src/main.go:825)
WaitText == [Blank EXCEPT !.kind = "wait"]

\* the question YesNo writes over the last line (src/main.go:243-244); when
\* it is answered with y the loop returns and the last line keeps it (556-558)
QuestionText == [Blank EXCEPT !.kind = "question"]

\* one turn of the loop: the handler's result, clamped and scrolled; a w
\* that ends the loop on a read error has written the wait text before, and
\* a q that ends it has written the question that was answered with y
Commit(key, S) ==
    \E F \in { Finish(S) } :
       /\ csvLines'    = F.lines
       /\ removedRows' = F.removed
       /\ cursorRow'   = F.cur
       /\ cursorCol'   = F.col
       /\ startRow'    = F.start
       /\ startCol'    = F.scol
       /\ message'     = F.msg
       /\ lastWord'    = F.word
       /\ lastSearch'  = F.dir
       /\ killbuffer'  = F.kill
       /\ files'       = F.files
       /\ fetch'       = F.fetch
       /\ input'       = F.input
       /\ pc'          = IF F.pc = "loop" /\ term.watched THEN "draw" ELSE F.pc
       /\ ev'          = Event(key, F.res, F.val, F.asked,
                               IF F.typed.done
                               THEN [word |-> F.typed.text, dir |-> F.typed.dir]
                               ELSE ev.search)
       /\ statusLine'  = IF F.pc = "loop"
                         THEN FrameStatus(mode, F.lines, F.cur, F.col, F.msg, tty.w)
                         ELSE IF key = "w" /\ fetch THEN WaitText
                         ELSE IF F.pc = "quit" /\ F.asked = "y" THEN QuestionText
                         ELSE statusLine
       /\ term'        = IF term.watched THEN F.term ELSE term
       /\ source'      = [source EXCEPT !.ended = F.ended]
       /\ UNCHANGED << cfg, mode, tty, sourceBytes, stalled, probe >>

(***************************************************************************)
(* Actions.                                                                *)
(***************************************************************************)
\* the load at the head of Config.edit (src/main.go:442-470) and the first
\* frame, which reads the line number of the cursor row
Load ==
    /\ pc = "load"
    /\ LET pre == IF sourceBytes = Absent
                  THEN [lines |-> Push(<< >>, << >>, NewRow(mode)),
                        input |-> << >>, fetch |-> FALSE]
                  ELSE IF source.failing
                  THEN [lines |-> << >>, input |-> input, fetch |-> TRUE]
                  ELSE Prefetch(<< >>, input, mode.Comma, 0)
       IN /\ csvLines'  = pre.lines
          /\ input'     = pre.input
          /\ fetch'     = pre.fetch
          /\ cursorRow' = Front(pre.lines)
          /\ startRow'  = Front(pre.lines)
          /\ pc'        = IF sourceBytes # Absent /\ source.failing THEN "error"
                          ELSE IF pre.lines = << >> THEN "panic"
                          ELSE IF term.watched THEN "draw" ELSE "loop"
          /\ source'    = [source EXCEPT
                               !.ended = sourceBytes # Absent /\ ~pre.fetch]
          /\ statusLine' = IF pre.lines = << >> THEN statusLine
                           ELSE FrameStatus(mode, pre.lines, Front(pre.lines), 0,
                                            NoMessage, tty.w)
    /\ cursorCol' = 0
    /\ startCol' = 0
    /\ ev' = Event("load", "none", NoCall, "none", ev.search)
    /\ UNCHANGED << cfg, mode, tty, sourceBytes, removedRows, files, lastWord,
                    lastSearch, message, killbuffer, stalled, probe, term >>

\* a terminal that is watched receives the repaint() of the turn
\* (src/main.go:497-500): the step between the end of the turn and its frame
RepaintDrawn ==
    /\ pc = "draw"
    /\ term.pending.paint.on
    /\ \E d \in { DrawCall(term, term.pending.paint.lines, term.pending.paint.start,
                           term.pending.paint.cur, term.pending.paint.scol,
                           term.pending.paint.col) } :
       \E shown \in { Rendered(term.pending.paint.lines, term.pending.paint.start,
                               term.pending.paint.cur, term.pending.paint.scol,
                               term.pending.paint.col) } :
           term' = [Repainted(term, d, shown) EXCEPT !.pending.paint.on = FALSE]
    /\ pc' = "draw"
    /\ UNCHANGED << cfg, mode, tty, sourceBytes, input, fetch, csvLines,
                    removedRows, files, cursorRow, startRow, cursorCol, startCol,
                    lastWord, lastSearch, message, killbuffer, stalled, probe,
                    statusLine, source, ev >>

\* the frame at the head of the loop (src/main.go:496-509) on a terminal that
\* is watched: the step between the end of a turn and the wait for a key
FrameDrawn ==
    /\ pc = "draw"
    /\ ~term.pending.paint.on
    /\ \E d \in { DrawCall(Cleared(term), csvLines, startRow, cursorRow,
                           startCol, cursorCol) } :
           term' = Framed(Cleared(term), d)
    /\ pc' = "loop"
    /\ UNCHANGED << cfg, mode, tty, sourceBytes, input, fetch, csvLines,
                    removedRows, files, cursorRow, startRow, cursorCol, startCol,
                    lastWord, lastSearch, message, killbuffer, stalled, probe,
                    statusLine, source, ev >>

IngestStatus_OverMessage(r, late) ==
    IF Len(r.lines) > Len(csvLines) /\ (~r.fetch \/ late)
    THEN printStatusLine(mode, r.lines, cursorRow, cursorCol, tty.w)
    ELSE statusLine

\* the status line after a call of the callback (src/main.go:526-532): when
\* a row was pushed and no message is shown it is printed again if the row
\* came with the end of the input or if the refresh interval has passed (late)
IngestStatus(r, late) ==
    IF Len(r.lines) > Len(csvLines) /\ message = NoMessage /\ (~r.fetch \/ late)
    THEN printStatusLine(mode, r.lines, cursorRow, cursorCol, tty.w)
    ELSE statusLine

\* one call of the callback of keyWorker.GetOr (src/main.go:514-534): a read
\* that returns an error clears fetch, and only the end of the input with a
\* row that is not empty still pushes the row
Callback ==
    IF source.failing
    THEN [lines |-> csvLines, input |-> input, fetch |-> FALSE]
    ELSE IngestStep(csvLines, removedRows, input, mode.Comma)

\* one call of the callback of keyWorker.GetOr while no key is ready
Ingest ==
    /\ pc = "loop"
    /\ fetch
    /\ ~stalled
    /\ LET r == Callback
       IN /\ csvLines' = r.lines
          /\ input'    = r.input
          /\ fetch'    = r.fetch
          /\ source'   = [source EXCEPT !.ended = @ \/ (~source.failing /\ ~r.fetch)]
          /\ \E late \in BOOLEAN : statusLine' = IngestStatus(r, late)
    /\ ev' = Event("ingest", "none", NoCall, "none", ev.search)
    /\ UNCHANGED << cfg, mode, tty, sourceBytes, removedRows, files, cursorRow,
                    startRow, cursorCol, startCol, lastWord, lastSearch,
                    message, killbuffer, pc, stalled, probe, term >>

\* the callback calls fetch, a read of the source on the loop's own thread
\* (src/main.go:364-366, 518): while the source has nothing to deliver the
\* call does not return
IngestBlocks ==
    /\ pc = "loop"
    /\ fetch
    /\ stalled
    /\ pc' = "fetch"
    /\ UNCHANGED << cfg, mode, tty, sourceBytes, input, fetch, csvLines,
                    removedRows, files, cursorRow, startRow, cursorCol, startCol,
                    lastWord, lastSearch, message, killbuffer, stalled, probe,
                    statusLine, term, source, ev >>

\* the read returns once the source delivers, and the callback goes on
IngestReturns ==
    /\ pc = "fetch"
    /\ ~stalled
    /\ LET r == Callback
       IN /\ csvLines' = r.lines
          /\ input'    = r.input
          /\ fetch'    = r.fetch
          /\ source'   = [source EXCEPT !.ended = @ \/ (~source.failing /\ ~r.fetch)]
          /\ \E late \in BOOLEAN : statusLine' = IngestStatus(r, late)
    /\ pc' = "loop"
    /\ ev' = Event("ingest", "none", NoCall, "none", ev.search)
    /\ UNCHANGED << cfg, mode, tty, sourceBytes, removedRows, files, cursorRow,
                    startRow, cursorCol, startCol, lastWord, lastSearch,
                    message, killbuffer, stalled, probe, term >>

\* the environment: the source breaks, and every read of it from now on
\* returns an error that is not the end of the input
SourceFails ==
    /\ pc \in { "load", "loop", "fetch", "drain" } /\ fetch /\ ~source.failing
    /\ source' = [source EXCEPT !.failing = TRUE]
    /\ UNCHANGED << cfg, mode, tty, sourceBytes, input, fetch, csvLines,
                    removedRows, files, cursorRow, startRow, cursorCol, startCol,
                    lastWord, lastSearch, message, killbuffer, pc, stalled, probe,
                    statusLine, term, ev >>

\* the environment: a source that is not at its end (a pipe, a network
\* stream) stops delivering, or delivers again
SourceStalls ==
    /\ pc \in { "loop", "drain" } /\ fetch /\ ~stalled
    /\ stalled' = TRUE
    /\ UNCHANGED << cfg, mode, tty, sourceBytes, input, fetch, csvLines,
                    removedRows, files, cursorRow, startRow, cursorCol, startCol,
                    lastWord, lastSearch, message, killbuffer, pc, probe,
                    statusLine, term, source, ev >>

SourceResumes ==
    /\ stalled
    /\ stalled' = FALSE
    /\ UNCHANGED << cfg, mode, tty, sourceBytes, input, fetch, csvLines,
                    removedRows, files, cursorRow, startRow, cursorCol, startCol,
                    lastWord, lastSearch, message, killbuffer, pc, probe,
                    statusLine, term, source, ev >>

\* the answers of a prompt that is shown only when the command was not
\* rejected with the message m
PromptsAfter(m) ==
    IF m # "" THEN { [err |-> TRUE, text |-> << >>] } ELSE PromptResults

RoomForRow == NewId(csvLines, removedRows) <= MaxIds

RoomForCell == Len(RowOf(csvLines, cursorRow).Cell) < MaxCells

KeyO ==
    /\ pc = "loop" /\ RoomForRow
    /\ \E p \in PromptsAfter(checkWriteProtect(cfg, cursorRow)) :
       \E v \in validate(cfg, p.text) :
           Commit("o", HandleO(AtDispatch, p, v))

KeyBigO ==
    /\ pc = "loop" /\ RoomForRow
    /\ \E p \in PromptsAfter(checkWriteProtect(cfg, cursorRow)) :
       \E v \in validate(cfg, p.text) :
           Commit("O", HandleBigO(AtDispatch, p, v))

KeyD == pc = "loop" /\ Commit("D", HandleD(AtDispatch))

KeyI ==
    /\ pc = "loop" /\ RoomForCell
    /\ \E p \in PromptsAfter(checkWriteProtectAndColumn(cfg, cursorRow)) :
       \E v \in validate(cfg, p.text) :
           Commit("i", HandleI(AtDispatch, p, v))

KeyA ==
    /\ pc = "loop" /\ RoomForCell
    /\ \E p \in PromptsAfter(checkWriteProtectAndColumn(cfg, cursorRow)) :
       \E v \in validate(cfg, p.text) :
           Commit("a", HandleA(AtDispatch, p, v))

KeyR ==
    /\ pc = "loop"
    /\ \E p \in PromptsAfter(checkWriteProtect(cfg, cursorRow)) :
       \E v \in validate(cfg, p.text) :
           Commit("r", HandleR(AtDispatch, p, v))

KeyU == pc = "loop" /\ Commit("u", HandleU(AtDispatch))

KeyY == pc = "loop" /\ Commit("y", HandleY(AtDispatch))

KeyP == pc = "loop" /\ Commit("p", HandleP(AtDispatch))

KeyDelCell == pc = "loop" /\ Commit("d", HandleDelCell(AtDispatch))

KeyQuote == pc = "loop" /\ Commit("quote", HandleQuote(AtDispatch))

\* a drain is taken only while the rows it pushes fit the bound; the drain
\* of a failing source pushes none
RoomForDrain ==
    (fetch /\ ~source.failing)
        => Len(Drain(csvLines, removedRows, input, mode.Comma).lines)
               + Len(removedRows) <= MaxIds

\* a document is written to the standard output only while the bound on
\* what the session writes there is not reached; a cancelled prompt writes
\* nothing
RoomForOutput(p) ==
    (~p.err /\ p.name = "-") => Len(files.stdout) < MaxOutputs

\* case "w" (src/main.go:823-841).  With fetch nil the document is written
\* in this turn.  Otherwise the key is taken, the message slot is cleared
\* (538), the wait text is written (825) and the loop enters the drain,
\* whose reads of the source are steps of their own: between two of them
\* the source may stall or break
KeyW ==
    /\ pc = "loop" /\ RoomForDrain
    /\ IF fetch
       THEN /\ pc' = "drain"
            /\ message' = NoMessage
            /\ statusLine' = WaitText
            /\ ev' = Event("wait", "none", NoCall, "none", ev.search)
            /\ UNCHANGED << cfg, mode, tty, sourceBytes, input, fetch, csvLines,
                            removedRows, files, cursorRow, startRow, cursorCol,
                            startCol, lastWord, lastSearch, killbuffer, stalled,
                            probe, term, source >>
       ELSE \E p \in [err : BOOLEAN, name : tty.names] : \E yes \in BOOLEAN :
                RoomForOutput(p) /\ Commit("w", HandleW(AtDispatch, p, yes))

\* one fetch() of the drain (src/main.go:827-835), which returns when the
\* source delivers: a read error ends the session (828-830); the row is
\* pushed (831), the one delivered with the end of the input included, and
\* after that one the document is written (837-840); fetch is left as it is
KeyWFetch ==
    /\ pc = "drain" /\ ~stalled
    /\ IF source.failing
       THEN Commit("w", [AtDispatch EXCEPT !.pc = "error", !.res = "error"])
       ELSE LET r == ReadLine(input, mode.Comma)
                pushed == Push(csvLines, removedRows, r.row)
            IN IF r.eof
               THEN \E p \in [err : BOOLEAN, name : tty.names] : \E yes \in BOOLEAN :
                        /\ RoomForOutput(p)
                        /\ Commit("w", HandleW([AtDispatch EXCEPT
                                                   !.lines = pushed,
                                                   !.input = r.rest,
                                                   !.ended = TRUE], p, yes))
               ELSE /\ csvLines' = pushed
                    /\ input' = r.rest
                    /\ ev' = Event("drain", "none", NoCall, "none", ev.search)
                    /\ UNCHANGED << cfg, mode, tty, sourceBytes, fetch,
                                    removedRows, files, cursorRow, startRow,
                                    cursorCol, startCol, lastWord, lastSearch,
                                    message, killbuffer, pc, stalled, probe,
                                    statusLine, term, source >>

KeyJ == pc = "loop" /\ Commit("move", HandleJ(AtDispatch))
KeyK == pc = "loop" /\ Commit("move", HandleK(AtDispatch))
KeyH == pc = "loop" /\ Commit("move", HandleH(AtDispatch))
KeyL == pc = "loop" /\ Commit("move", HandleL(AtDispatch))
KeyHome == pc = "loop" /\ Commit("move", HandleHome(AtDispatch))
KeyEnd == pc = "loop" /\ Commit("move", HandleEnd(AtDispatch))
KeyFirst == pc = "loop" /\ Commit("move", HandleFirst(AtDispatch))
KeyLast == pc = "loop" /\ Commit("move", HandleLast(AtDispatch))

KeyN == pc = "loop" /\ Commit("n", HandleN(AtDispatch))
KeyBigN == pc = "loop" /\ Commit("N", HandleBigN(AtDispatch))

KeySlash ==
    /\ pc = "loop"
    /\ \E ch \in {"/", "?"} : \E p \in PromptResults : \E e \in PromptError(p) :
           Commit(ch, HandleSlash(AtDispatch, ch, p, e))

KeyQ == pc = "loop" /\ \E yes \in BOOLEAN : Commit("q", HandleQ(AtDispatch, yes))

\* Ctrl-L clears the line cache and changes nothing else
KeyCtrlL == pc = "loop" /\ Commit("redraw", ClearCache(AtDispatch))

(***************************************************************************)
(* Initial states.                                                         *)
(***************************************************************************)
NoHook == "nil"

Config(ro, ph, fix, hl, hook) ==
    [ReadOnly |-> ro, ProtectHeader |-> ph, FixColumn |-> fix, HeaderLines |-> hl,
     hook |-> hook]

HasBom(bytes) == bytes # Absent /\ bytes # << >> /\ bytes[1] = BOM

\* the source is taken for the code page when it holds bytes that are not
\* UTF-8 (isAnsi of _CodeFlag)
IsAnsi(bytes) == bytes # Absent /\ ~HasBom(bytes) /\ Contains(bytes, MB)

\* the state in which Config.edit is entered for a source and a configuration;
\* bak is the content of a backup file left by an earlier session, watched
\* says whether the terminal is recorded
InitSession(c, bytes, pilot, bak, pr, watched) ==
    /\ cfg = c
    /\ mode = [Comma |-> ",", DefaultTerm |-> << LF >>, bom |-> HasBom(bytes),
               ansi |-> IsAnsi(bytes)]
    /\ tty = pilot
    /\ sourceBytes = bytes
    /\ input = IF HasBom(bytes) THEN Tail(bytes)
               ELSE IF bytes = Absent THEN << >> ELSE bytes
    /\ fetch = (bytes # Absent)
    /\ csvLines = << >>
    /\ removedRows = << >>
    /\ files = [stdout |-> << >>, f |-> bytes, bak |-> bak, overWritten |-> FALSE]
    /\ cursorRow = NilPtr
    /\ startRow = NilPtr
    /\ cursorCol = 0
    /\ startCol = 0
    /\ lastWord = << >>
    /\ lastSearch = "fwd"
    /\ message = NoMessage
    /\ killbuffer = << >>
    /\ pc = "load"
    /\ stalled = FALSE
    /\ probe = pr
    /\ statusLine = Blank
    /\ term = Terminal(watched)
    /\ source = [ended |-> FALSE, failing |-> FALSE]
    /\ ev = Event("start", "none", NoCall, "none", NoSearch)

InitState(c, bytes, pilot, bak, pr) == InitSession(c, bytes, pilot, bak, pr, FALSE)

InitWith(c, bytes, pilot) == InitState(c, bytes, pilot, Absent, NoProbe)

\* a terminal of w columns and h lines whose user types the given texts
\* into text prompts and the given names into the prompt of w
Pilot(w, h, texts, names) ==
    [w |-> w, h |-> h, cellWidth |-> 14, texts |-> texts, names |-> names]

Screen(w, h) == Pilot(w, h, Texts, { "-", "f" })

\* a session on a small source, every command available
Init ==
    \E bytes \in { << "a", ",", "b", LF, "c", LF >> } :
        InitWith(Config(FALSE, FALSE, FALSE, 0, NoHook), bytes, Screen(30, 3))

Next ==
    \/ Load \/ Ingest \/ IngestBlocks \/ IngestReturns
    \/ SourceStalls \/ SourceResumes \/ SourceFails
    \/ KeyWFetch
    \/ KeyO \/ KeyBigO \/ KeyD
    \/ KeyI \/ KeyA \/ KeyR \/ KeyU \/ KeyY \/ KeyP \/ KeyDelCell \/ KeyQuote
    \/ KeyW
    \/ KeyJ \/ KeyK \/ KeyH \/ KeyL \/ KeyHome \/ KeyEnd \/ KeyFirst \/ KeyLast
    \/ KeyN \/ KeyBigN \/ KeySlash
    \/ KeyQ \/ KeyCtrlL

Spec == Init /\ [][Next]_vars

(***************************************************************************)
(* Round trip: load a source, write it out unedited.                       *)
(***************************************************************************)
Alphabet == { "a", MB, ",", QUOTE, LF, CR }

Sources == UNION { [1..n -> Alphabet] : n \in 0..MaxBytes }

InitRoundTrip ==
    \E body \in Sources : \E bom \in BOOLEAN :
        InitWith(Config(FALSE, FALSE, FALSE, 0, NoHook),
                 IF bom THEN << BOM >> \o body ELSE body, Screen(30, 4))

NextRoundTrip == Load \/ Ingest \/ KeyW \/ KeyWFetch

SpecRoundTrip == InitRoundTrip /\ [][NextRoundTrip]_vars

\* C1: a document written by w without any edit is written as the bytes of
\* its source: after a w that wrote, the file holds the source bytes and so
\* does the standard output when it was written to.
C1_RoundTrip ==
    (ev.key = "w" /\ ev.res = "ok")
        => /\ files.f = sourceBytes
           /\ \A i \in 1..Len(files.stdout) : files.stdout[i] = sourceBytes

\* the same for the sources that are UTF-8: used to place the divergence of
\* C1 in the code-page branch of writeCsvTo
C1_RoundTripUtf8 == ~mode.ansi => C1_RoundTrip

(***************************************************************************)
(* Row commands: o, O, D and ingestion, with cursor motion between rows.   *)
(***************************************************************************)
RowSources ==
    { << >>,
      << "a", LF >>,
      << "a", LF, "b" >>,
      << "a", ",", "b", LF, "c", LF >> }

InitRows ==
    \E bytes \in RowSources :
        InitWith(Config(FALSE, FALSE, FALSE, 0, NoHook), bytes, Screen(30, 3))

NextRows == Load \/ Ingest \/ KeyO \/ KeyBigO \/ KeyD \/ KeyJ \/ KeyK

SpecRows == InitRows /\ [][NextRows]_vars

\* C2: once loaded, the document holds at least one row.
C2_AtLeastOneRow == pc # "load" => Len(csvLines) >= 1

\* C2, second half: D on the only row changes neither document nor cursor.
C2_LastRowKept ==
    [][(pc = "loop" /\ Len(csvLines) = 1 /\ ev'.key = "D")
           => (csvLines' = csvLines /\ cursorRow' = cursorRow
                  /\ cursorCol' = cursorCol)]_vars

(***************************************************************************)
(* Cell commands: i, a, d/x with a validation hook, cursor motion in the   *)
(* row.                                                                    *)
(***************************************************************************)
WithHook == "set"

\* an empty row, then a row of a quoted and a bare cell without terminator
CellSource == << LF, QUOTE, "a", QUOTE, ",", "b" >>

InitCells ==
    InitWith(Config(FALSE, FALSE, FALSE, 0, WithHook), CellSource,
             Pilot(30, 4, { << "a" >> }, { "-" }))

NextCells ==
    Load \/ Ingest \/ KeyI \/ KeyA \/ KeyDelCell \/ KeyH \/ KeyL \/ KeyJ \/ KeyK

SpecCells == InitCells /\ [][NextCells]_vars

SingleEmpty(row) == Len(row.Cell) = 1 /\ row.Cell[1].text = << >>

CursorCells == RowOf(csvLines, cursorRow).Cell

\* C3: every row has at least one cell, whatever i, a, d and x commands were
\* given and however their prompts ended; d or x on a row of one cell leaves
\* it with one cell whose text is empty.
C3_EveryRowHasCell ==
    /\ [](\A i \in 1..Len(csvLines) : Len(csvLines[i].Cell) >= 1)
    /\ [][(pc = "loop" /\ Len(CursorCells) = 1 /\ ev'.key = "d")
              => (Len(CursorCells') = 1 /\ CursorCells'[1].text = << >>)]_vars

\* a row of one cell has just been emptied by d
C3_Witness ==
    /\ ev.key = "d" /\ ev.res = "ok"
    /\ SingleEmpty(RowOf(csvLines, cursorRow))
    /\ RowOf(csvLines, cursorRow).Cell[1].modified

\* C9: when the prompt of a is cancelled after the empty cell was inserted,
\* the cell is removed again: the cells of the row and the cursor are as
\* they were before the command.
C9_AppendCancelled ==
    [][(pc = "loop" /\ ~SingleEmpty(RowOf(csvLines, cursorRow))
           /\ ev'.key = "a" /\ ev'.res = "cancel")
          => (CursorCells' = CursorCells /\ cursorCol' = cursorCol
                 /\ cursorRow' = cursorRow)]_vars

\* an a command was cancelled on a row that is not a single empty cell, so
\* the empty cell had been inserted
C9_Witness ==
    /\ ev.key = "a" /\ ev.res = "cancel"
    /\ ~SingleEmpty(RowOf(csvLines, cursorRow))

(***************************************************************************)
(* Write protection: a read-only session and a session with a protected    *)
(* header line, every editing command available.                           *)
(***************************************************************************)
ProtectSource == << "a", ",", QUOTE, "b", QUOTE, LF, "c", LF >>

\* a read-only session, and one that also protects a header of one line
InitProtect ==
    \E c \in { Config(TRUE, FALSE, FALSE, 0, NoHook),
               Config(TRUE, TRUE, FALSE, 1, NoHook) } :
        InitWith(c, ProtectSource, Screen(30, 4))

NextProtect ==
    \/ Load \/ Ingest
    \/ KeyO \/ KeyBigO \/ KeyD
    \/ KeyI \/ KeyA \/ KeyR \/ KeyU \/ KeyY \/ KeyP \/ KeyDelCell \/ KeyQuote
    \/ KeyJ \/ KeyK \/ KeyH \/ KeyL

SpecProtect == InitProtect /\ [][NextProtect]_vars

\* C4: with ReadOnly set no command changes the document: a turn of the loop
\* that handles a key leaves every row, with the texts, quoting, modified
\* flags and terminators of its cells, as it was.
C4_ReadOnlyKeepsDocument ==
    [][(pc = "loop" /\ cfg.ReadOnly /\ ev'.key # "ingest")
          => csvLines' = csvLines]_vars

EditKeys == { "o", "O", "D", "i", "a", "r", "p", "d", "quote", "u" }

\* C5: with ProtectHeader set, an editing command given while the cursor is
\* on a row whose line number is below HeaderLines is rejected with the
\* message of the protection and leaves the cells of that row as they were.
C5_HeaderProtected ==
    [][(pc = "loop" /\ cfg.ProtectHeader /\ cursorRow.lnum < cfg.HeaderLines
           /\ ev'.key \in EditKeys)
          => (/\ ev'.res = "protected"
              /\ message'.kind = msgProtectHeader
              /\ RowOf(csvLines', cursorRow).Cell = RowOf(csvLines, cursorRow).Cell)]_vars

(***************************************************************************)
(* Fixed columns: every loaded row has two cells.                          *)
(***************************************************************************)
FixSource == << "a", ",", "b", LF, "c", ",", "d", LF >>

InitFix ==
    InitWith(Config(FALSE, FALSE, TRUE, 0, NoHook), FixSource,
             Pilot(30, 4, { << "a" >> }, { "-" }))

NextFix ==
    \/ Load \/ Ingest
    \/ KeyO \/ KeyBigO \/ KeyD
    \/ KeyI \/ KeyA \/ KeyDelCell
    \/ KeyW \/ KeyWFetch
    \/ KeyJ \/ KeyK

SpecFix == InitFix /\ [][NextFix]_vars

\* C6: with FixColumn set and every loaded row having n cells, every row of
\* the document has n cells, whatever commands were given.
C6_ColumnsFixed ==
    pc = "loop" => \A i \in 1..Len(csvLines) : Len(csvLines[i].Cell) = 2

\* every turn of the loop other than a w command keeps the property: used
\* to place the divergence of C6 in the drain of w
C6_ColumnsKeptByCommands ==
    [][(pc = "loop" /\ ev'.key # "w"
           /\ \A i \in 1..Len(csvLines) : Len(csvLines[i].Cell) = 2)
          => \A i \in 1..Len(csvLines') : Len(csvLines'[i].Cell) = 2]_vars

(***************************************************************************)
(* The validation hook: o, O, r and p on the cursor cell, with a hook that  *)
(* may accept, replace or reject the text.  i and a under the hook are in  *)
(* SpecCells.                                                              *)
(***************************************************************************)
HookSource == << "a", LF, "b", LF >>

InitHook ==
    InitWith(Config(FALSE, FALSE, FALSE, 0, WithHook), HookSource,
             Pilot(30, 4, { << "a" >> }, { "-" }))

NextHook ==
    \/ Load \/ Ingest
    \/ KeyO \/ KeyBigO
    \/ KeyR \/ KeyY \/ KeyP

SpecHook == InitHook /\ [][NextHook]_vars

\* C7: when the hook rejects the text of a command, its error is the status
\* message and the document is as it was before the command.
C7_RejectAborts ==
    [][(pc = "loop" /\ ev'.res = "reject")
          => (message'.kind = msgInvalid /\ csvLines' = csvLines)]_vars

StoreKeys == { "o", "O", "i", "a", "r", "p" }

\* C8: a text stored into a cell by o, O, i, a, r or p was passed to the
\* hook in that turn, the hook accepted it, and the cell holds the text the
\* hook returned.
C8_StoredTextValidated ==
    [][(pc = "loop" /\ ev'.key \in StoreKeys /\ ev'.res = "ok")
          => (/\ ev'.val.called /\ ev'.val.ok
              /\ CursorCells'[cursorCol' + 1].text = ev'.val.text)]_vars

(***************************************************************************)
(* Cancelled prompts: every command that asks for a text.                  *)
(***************************************************************************)
CancelSource == << "a", ",", "b", LF, "c", ",", "d", LF >>

InitCancel ==
    InitWith(Config(FALSE, FALSE, FALSE, 0, NoHook), CancelSource,
             Pilot(30, 4, { << "a" >> }, { "-" }))

NextCancel ==
    \/ Load \/ Ingest
    \/ KeyO \/ KeyBigO \/ KeyI \/ KeyA \/ KeyR
    \/ KeySlash
    \/ KeyW \/ KeyWFetch

SpecCancel == InitCancel /\ [][NextCancel]_vars

\* C10: cancelling the text prompt of a command leaves the rows and cells of
\* the document, the cursor and the remembered search term and direction as
\* they were before the command.
C10_CancelIsNoOp ==
    [][(pc = "loop" /\ ev'.res = "cancel")
          => (/\ csvLines' = csvLines
              /\ cursorRow' = cursorRow /\ cursorCol' = cursorCol
              /\ lastWord' = lastWord /\ lastSearch' = lastSearch)]_vars

(***************************************************************************)
(* Search: a session in which the user moves and searches.                 *)
(***************************************************************************)
SearchSource == << "a", ",", "b", LF, "b", ",", "a", LF, "a", LF >>

InitSearch ==
    InitWith(Config(FALSE, FALSE, FALSE, 0, NoHook), SearchSource,
             Pilot(30, 4, { << "a" >>, << "x" >>, << >> }, { "-" }))

NextSearch ==
    \/ Load \/ Ingest
    \/ KeySlash \/ KeyN \/ KeyBigN
    \/ KeyJ \/ KeyK \/ KeyH \/ KeyL

SpecSearch == InitSearch /\ [][NextSearch]_vars

\* the cells of the document as positions << row, column >>, rows counted
\* from 1 and columns from 0, and their row-major order
Cells(lines) ==
    { << i, j >> : i \in 1..Len(lines), j \in 0..(MaxCells + 1) } \cap
    { q \in (1..Len(lines)) \X (0..(MaxCells + 1)) : q[2] < Len(lines[q[1]].Cell) }

Before(p, q) == p[1] < q[1] \/ (p[1] = q[1] /\ p[2] < q[2])

Matches(lines, word) ==
    { q \in Cells(lines) : HasSub(lines[q[1]].Cell[q[2] + 1].text, word) }

\* the cells a search from p in the direction dir may stop at: the first
\* match after p, or the last match before p
Targets(lines, p, dir, word) ==
    LET M == IF dir = "fwd"
             THEN { q \in Matches(lines, word) : Before(p, q) }
             ELSE { q \in Matches(lines, word) : Before(q, p) }
    IN { q \in M : \A o \in M : o = q \/
                      (IF dir = "fwd" THEN Before(q, o) ELSE Before(o, q)) }

\* the direction the search of this turn ran in
DirOf(key, last) ==
    IF key = "/" THEN "fwd"
    ELSE IF key = "?" THEN "bwd"
    ELSE IF key = "n" THEN last
    ELSE IF last = "fwd" THEN "bwd" ELSE "fwd"

CursorPos == << Pos(csvLines, cursorRow.id), cursorCol >>

\* C11: a search that ran moves the cursor to the first cell after it (forward)
\* or the last cell before it (backward), in row-major order, whose text
\* contains the term; when there is no such cell it does not wrap: the cursor
\* stays and the message is "<term>: not found"
C11_SearchFindsNearest ==
    [][(ev'.key \in {"/", "?", "n", "N"} /\ ev'.res \in {"ok", "notfound"}) =>
         LET T == Targets(csvLines, CursorPos, DirOf(ev'.key, lastSearch), lastWord')
         IN IF T = {}
            THEN /\ ev'.res = "notfound"
                 /\ cursorRow' = cursorRow /\ cursorCol' = cursorCol
                 /\ message' = Msg(": not found", lastWord')
            ELSE /\ ev'.res = "ok"
                 /\ << Pos(csvLines', cursorRow'.id), cursorCol' >> \in T
                 /\ cursorRow'.lnum - cursorRow.lnum =
                        Pos(csvLines', cursorRow'.id) - CursorPos[1]]_vars

\* a repeated search for a term the document holds behind the cursor only
\* ended without a match: it did not wrap
C11_Witness ==
    /\ ev.key = "n" /\ ev.res = "notfound" /\ lastSearch = "fwd"
    /\ lastWord = << "a" >> /\ CursorPos = << 3, 0 >>

\* what a repeated search of this turn does when it runs for the term w in
\* the direction d: nothing without a term, else the move of C11
RepeatsSearch(w, d) ==
    IF w = << >>
    THEN /\ ev'.res = "none"
         /\ UNCHANGED << csvLines, cursorRow, cursorCol, startRow, startCol >>
    ELSE LET T == Targets(csvLines, CursorPos, d, w)
         IN IF T = {}
            THEN /\ ev'.res = "notfound"
                 /\ cursorRow' = cursorRow /\ cursorCol' = cursorCol
                 /\ message' = Msg(": not found", w)
            ELSE /\ ev'.res = "ok"
                 /\ << Pos(csvLines', cursorRow'.id), cursorCol' >> \in T

\* C13: n searches for the term of the most recent completed search prompt in
\* the direction of that prompt (/ forward, ? backward) and N in the opposite
\* direction; both do nothing when no term has been entered
C13_RepeatUsesLastSearch ==
    [][ev'.key \in {"n", "N"} =>
         RepeatsSearch(ev.search.word, DirOf(ev'.key, ev.search.dir))]_vars

\* C13, where it holds: as long as no search prompt was cancelled since the
\* last completed one (the remembered term is still that prompt's)
C13_RepeatUnlessCancelled ==
    [][(ev'.key \in {"n", "N"} /\ lastWord = ev.search.word) =>
         RepeatsSearch(ev.search.word, DirOf(ev'.key, ev.search.dir))]_vars

\* C13: the remembered direction is always that of the last completed prompt
C13_DirectionKept == lastSearch = ev.search.dir

(***************************************************************************)
(* Symmetry of the search functions: a forward search, then a backward     *)
(* search from the position the forward search left, each taken as the     *)
(* search commands take it (src/unnamed/part_001:484-503, the same in      *)
(* src/main.go:585-606): the position moves when the search found a cell   *)
(* and stays when it did not.                                              *)
(***************************************************************************)
ProbeTexts == { << "a" >>, << "b" >> }

ProbeRows == UNION { [1..n -> ProbeTexts] : n \in 1..MaxCells }

ProbeDocs == UNION { [1..n -> ProbeRows] : n \in 1..MaxDocRows }

InitSymmetry ==
    \E doc \in ProbeDocs : \E r \in 0..(MaxDocRows - 1) : \E c \in 0..(MaxCells - 1) :
    \E target \in ProbeTexts \cup { << >> } :
        /\ r < Len(doc) /\ c < Len(doc[r + 1])
        /\ InitState(Config(FALSE, FALSE, FALSE, 0, NoHook), Absent,
                     Pilot(30, 4, { }, { }), Absent,
                     [stage |-> "args", csvlines |-> doc, r |-> r, c |-> c,
                      target |-> target,
                      rowIndex |-> r, colIndex |-> c,
                      fwd |-> [found |-> FALSE, r |-> r, c |-> c],
                      bwd |-> [found |-> FALSE, r |-> r, c |-> c]])

\* what the caller does with the result of a search: `if !found { message =
\* ...; break }; rowIndex = r; colIndex = c` (src/unnamed/part_001:488-493)
Searched(P, res) ==
    IF res.found THEN [P EXCEPT !.rowIndex = res.r, !.colIndex = res.c] ELSE P

\* case "n" with lastSearch = searchForward (src/unnamed/part_001:483-493):
\* nothing is done while no word was entered
ProbeForward ==
    /\ probe.stage = "args"
    /\ IF probe.target = << >>
       THEN /\ probe' = [probe EXCEPT !.stage = "forward"]
            /\ message' = NoMessage
       ELSE \E res \in { searchForwardAt(probe.csvlines, probe.rowIndex,
                                         probe.colIndex, probe.target) } :
              /\ probe' = [Searched(probe, res) EXCEPT !.stage = "forward",
                                                       !.fwd = res]
              /\ message' = IF res.found THEN NoMessage
                            ELSE Msg(": not found", probe.target)
    /\ UNCHANGED << cfg, mode, tty, sourceBytes, input, fetch, csvLines,
                    removedRows, files, cursorRow, startRow, cursorCol, startCol,
                    lastWord, lastSearch, killbuffer, pc, stalled,
                    statusLine, term, source, ev >>

\* case "N" with lastSearchRev = searchBackward (src/unnamed/part_001:
\* 494-503), the message of the turn before having been shown and cleared
\* (433-437)
ProbeBackward ==
    /\ probe.stage = "forward"
    /\ IF probe.target = << >>
       THEN /\ probe' = [probe EXCEPT !.stage = "backward"]
            /\ message' = NoMessage
       ELSE \E res \in { searchBackwardAt(probe.csvlines, probe.rowIndex,
                                          probe.colIndex, probe.target) } :
              /\ probe' = [Searched(probe, res) EXCEPT !.stage = "backward",
                                                       !.bwd = res]
              /\ message' = IF res.found THEN NoMessage
                            ELSE Msg(": not found", probe.target)
    /\ UNCHANGED << cfg, mode, tty, sourceBytes, input, fetch, csvLines,
                    removedRows, files, cursorRow, startRow, cursorCol, startCol,
                    lastWord, lastSearch, killbuffer, pc, stalled,
                    statusLine, term, source, ev >>

NextSymmetry == ProbeForward \/ ProbeBackward

SpecSymmetry == InitSymmetry /\ [][NextSymmetry]_vars

\* the cells of the probed document that contain the target
Occurrences ==
    { q \in (0..(Len(probe.csvlines) - 1)) \X (0..MaxCells) :
        /\ q[2] < Len(probe.csvlines[q[1] + 1])
        /\ HasSub(probe.csvlines[q[1] + 1][q[2] + 1], probe.target) }

\* C12 as stated: when the target occurs in exactly one cell, searchForward
\* from (r,c) followed by searchBackward from the resulting position ends at
\* (r,c) or at a position before it in row-major order
C12_BackNotPastStart ==
    (probe.stage = "backward" /\ Cardinality(Occurrences) = 1) =>
        ~Before(<< probe.r, probe.c >>, << probe.rowIndex, probe.colIndex >>)

\* C12, amended: when the target occurs in exactly one cell, searchForward
\* from (r,c) followed by searchBackward from the resulting position ends on
\* that cell, which is (r,c) or an earlier position unless the cell lies after
\* (r,c); the forward search finds it exactly when it lies after (r,c), the
\* backward search exactly when it lies before (r,c)
C12_EndsOnOccurrence ==
    (probe.stage = "backward" /\ Cardinality(Occurrences) = 1) =>
        \A occ \in Occurrences :
            /\ << probe.rowIndex, probe.colIndex >> = occ
            /\ probe.fwd.found <=> Before(<< probe.r, probe.c >>, occ)
            /\ probe.bwd.found <=> Before(occ, << probe.r, probe.c >>)

\* the one occurrence lies in the row after the start cell: the forward
\* search moved to it, the backward search from it found nothing, and the
\* position stays on it, after (r,c)
C12_Witness ==
    /\ probe.stage = "backward" /\ Cardinality(Occurrences) = 1
    /\ Len(probe.csvlines) = 2
    /\ probe.fwd.found /\ ~probe.bwd.found
    /\ << probe.rowIndex, probe.colIndex >> \in Occurrences
    /\ Before(<< probe.r, probe.c >>, << probe.rowIndex, probe.colIndex >>)

\* the one occurrence lies before the start cell: the forward search found
\* nothing, and the backward search moved to it
C12_BackToEarlier ==
    /\ probe.stage = "backward" /\ Cardinality(Occurrences) = 1
    /\ ~probe.fwd.found /\ probe.bwd.found
    /\ Before(<< probe.rowIndex, probe.colIndex >>, << probe.r, probe.c >>)

(***************************************************************************)
(* Quit: sessions with and without ReadOnly in which the user moves,       *)
(* deletes cells and presses q.                                            *)
(***************************************************************************)
QuitSource == << "a", ",", "b", LF, "c", ",", "d", LF, "e", LF >>

InitQuit ==
    \E ro \in BOOLEAN :
        InitWith(Config(ro, FALSE, FALSE, 0, NoHook), QuitSource,
                 Pilot(30, 3, { }, { }))

NextQuit ==
    \/ Load \/ Ingest
    \/ KeyQ \/ KeyDelCell
    \/ KeyJ \/ KeyK \/ KeyH \/ KeyL

SpecQuit == InitQuit /\ [][NextQuit]_vars

\* C14 as stated: the session ends only in a turn of q or Escape whose
\* confirmation prompt was answered with y
C14_QuitOnlyAfterYes ==
    [][(pc = "loop" /\ pc' = "quit") => (ev'.key = "q" /\ ev'.asked = "y")]_vars

\* C14, amended: the session ends only in a turn of q or Escape, after the
\* confirmation prompt was answered with y or, when ReadOnly is set, without
\* a prompt; after any other answer the session runs on with the document,
\* the cursor and the viewport unchanged
C14_QuitConfirmedOrReadOnly ==
    [][((pc = "loop" /\ pc' = "quit") =>
           (ev'.key = "q" /\ ev'.asked = (IF cfg.ReadOnly THEN "none" ELSE "y")))
       /\
       ((ev'.key = "q" /\ ev'.asked = "other") =>
           (pc' = "loop" /\
            UNCHANGED << csvLines, cursorRow, cursorCol, startRow, startCol >>))]_vars

\* a session without ReadOnly has ended after the prompt was answered with y,
\* the cursor away from the first row
C14_Witness ==
    /\ ~cfg.ReadOnly /\ pc = "quit" /\ ev.key = "q" /\ ev.asked = "y"
    /\ cursorRow.lnum > 0

(***************************************************************************)
(* Writing: a session on a file or on a new document, with or without a    *)
(* backup left by an earlier session; the user deletes cells and writes to *)
(* the file or to the standard output.                                     *)
(***************************************************************************)
WriteSource == << "a", ",", "b", LF, "c", LF, "d" >>

OldBackup == << "z", LF >>

InitWrite ==
    \E bytes \in { Absent, WriteSource } : \E bak \in { Absent, OldBackup } :
        InitState(Config(FALSE, FALSE, FALSE, 0, NoHook), bytes,
                  Pilot(30, 4, { }, { "-", "f" }), bak, NoProbe)

NextWrite == Load \/ Ingest \/ KeyW \/ KeyWFetch \/ KeyDelCell \/ SourceFails

SpecWrite == InitWrite /\ [][NextWrite]_vars

\* C15: by a w on a file that exists and was not yet overwritten in this
\* session, the file and its backup change only when the yes/no prompt was
\* answered with y; after another answer nothing was written anywhere
C15_OverwriteOnlyAfterYes ==
    [][(ev'.key = "w" /\ files.f # Absent /\ ~files.overWritten) =>
         /\ (files'.f # files.f \/ files'.bak # files.bak \/ files'.overWritten)
                => ev'.asked = "y"
         /\ ev'.asked = "other" => files' = files]_vars

\* the document was edited, w on the existing file was answered with n, and
\* the file and the old backup are as they were
C15_Witness ==
    /\ ev.key = "w" /\ ev.asked = "other"
    /\ files.f = WriteSource /\ files.bak = OldBackup /\ ~files.overWritten
    /\ writeCsvTo(csvLines, mode) # files.f

\* C16 as stated: once an overwrite was confirmed, the backup holds the
\* content the file had before the first write of the session (the file
\* changes by the writes of the session only, so that is what it held when
\* the session began), and later writes neither ask nor touch the backup
C16_BackupOfFirstContent ==
    files.overWritten => files.bak = sourceBytes

\* C16, amended: a confirmed first overwrite leaves in the backup the content
\* the file had just before that overwrite, whatever the backup held; later
\* writes to the file neither ask again nor change the backup (a step that
\* leaves source.failing as it was is a step of the loop, here a turn of w)
C16_BackupOfOverwritten ==
    [][(ev'.key = "w" /\ source'.failing = source.failing) =>
         /\ ev'.asked = "y" =>
               (~files.overWritten /\ files'.overWritten /\ files'.bak = files.f)
         /\ files.overWritten =>
               (ev'.asked = "none" /\ files'.bak = files.bak /\ files'.overWritten)]_vars

\* a second write to the overwritten file went through without a question:
\* the backup still holds the source and not what the first write put there
C16_Witness ==
    /\ ev.key = "w" /\ ev.res = "ok" /\ ev.asked = "none" /\ files.overWritten
    /\ files.bak = WriteSource /\ files.f # WriteSource
    /\ files.stdout = << >>

\* the rows of a source, read to its end: what a complete load appends
RECURSIVE RowsOf(_, _)
RowsOf(bytes, comma) ==
    LET r == ReadLine(bytes, comma)
    IN IF r.eof THEN (IF isEmptyRow(r.row) THEN << >> ELSE << r.row >>)
       ELSE << r.row >> \o RowsOf(r.rest, comma)

SourceRows ==
    IF sourceBytes = Absent THEN << >>
    ELSE RowsOf(IF HasBom(sourceBytes) THEN Tail(sourceBytes) ELSE sourceBytes,
                mode.Comma)

\* C17: a w that wrote (to the file or to the standard output) wrote with the
\* source read to its end and every row of the source in the document
C17_WritesWholeDocument ==
    [][(ev'.key = "w" /\ files' # files) =>
         /\ input' = << >>
         /\ Len(csvLines') >= Len(SourceRows)
         /\ \A i \in 1..Len(SourceRows) : csvLines'[i].Term = SourceRows[i].Term]_vars

\* C17, where it holds: while no read of the source has failed, a w that
\* wrote did so with the source read to its end and every row of the source
\* in the document
C17_WholeWhileSourceReads ==
    [][(ev'.key = "w" /\ files' # files /\ ~source.failing) =>
         /\ input' = << >>
         /\ Len(csvLines') >= Len(SourceRows)
         /\ \A i \in 1..Len(SourceRows) : csvLines'[i].Term = SourceRows[i].Term]_vars

\* w wrote to the standard output while idle ingestion had not reached the
\* end of the source: the rows of the source are all in the document
C17_DrainedBeforeWrite ==
    /\ ev.key = "w" /\ ev.res = "ok" /\ files.stdout # << >>
    /\ fetch /\ input = << >> /\ Len(csvLines) = 3

\* the source broke after the load, an idle step cleared fetch, and w wrote
\* the one row read so far to the standard output
C17_PartialWritten ==
    /\ ev.key = "w" /\ ev.res = "ok" /\ files.stdout # << >>
    /\ source.failing /\ ~fetch /\ input # << >>
    /\ Len(csvLines) < Len(SourceRows)

\* the row the reader delivers together with the end of the input when the
\* input ends with a terminator: no cell but an empty one, and no terminator
EofRow(row) == isEmptyRow(row) /\ row.Term = << >>

\* C18: on no ingestion path is the all-empty row delivered with the end of
\* the input appended to the document (stated for documents without edits)
C18_NoEofRowAppended ==
    \A i \in 1..Len(csvLines) : ~EofRow(csvLines[i])

\* C18, where it holds: the initial prefetch and the idle ingestion step
\* append no such row
C18_PrefetchAndIdleDropEofRow ==
    [][ev'.key \in {"load", "ingest"} =>
         \A i \in (Len(csvLines) + 1)..Len(csvLines') : ~EofRow(csvLines'[i])]_vars

\* C18, where it holds: every other row of the source is appended, the empty
\* rows that further input follows included
C18_EmptyRowsAppended ==
    (pc = "loop" /\ ~fetch) =>
        /\ Len(csvLines) >= Len(SourceRows)
        /\ \A i \in 1..Len(SourceRows) :
               /\ csvLines[i].Term = SourceRows[i].Term
               /\ csvLines[i].Cell = SourceRows[i].Cell

(***************************************************************************)
(* A source that stalls: the user moves and quits while rows arrive, or do *)
(* not.                                                                    *)
(***************************************************************************)
StallSource == << "a", ",", "b", LF, "c", LF, "d", LF >>

InitStall ==
    InitWith(Config(FALSE, FALSE, FALSE, 0, NoHook), StallSource,
             Pilot(30, 4, { }, { }))

\* the turns a pressed key leads to in this session
KeyTurn == KeyJ \/ KeyK \/ KeyH \/ KeyL \/ KeyQ

NextStall ==
    \/ Load \/ Ingest \/ IngestBlocks \/ IngestReturns
    \/ SourceStalls \/ SourceResumes
    \/ KeyTurn

SpecStall == InitStall /\ [][NextStall]_vars

\* C19: while the session runs, a key that is pressed can be handled, also
\* while a read of the source has not returned
C19_KeysHandledWhileStalled ==
    pc \in {"loop", "fetch"} => ENABLED KeyTurn

\* C19, where it holds: outside a read that has not returned, keys are handled
C19_KeysHandledOutsideRead ==
    pc = "loop" => ENABLED KeyTurn

(***************************************************************************)
(* Restore: the user replaces, pastes, toggles the quotes of and restores  *)
(* the cells of one row.                                                   *)
(***************************************************************************)
RestoreSource == << QUOTE, "a", QUOTE, ",", "b", LF >>

InitRestore ==
    InitWith(Config(FALSE, FALSE, FALSE, 0, NoHook), RestoreSource,
             Pilot(30, 4, { << "x" >>, << "," >> }, { }))

NextRestore ==
    \/ Load \/ Ingest
    \/ KeyR \/ KeyP \/ KeyY \/ KeyQuote \/ KeyU
    \/ KeyH \/ KeyL

SpecRestore == InitRestore /\ [][NextRestore]_vars

\* the cell under the cursor, and the same cell as a load of the source
\* delivers it
CursorCell == csvLines[CursorPos[1]].Cell[cursorCol + 1]

LoadedCell == SourceRows[CursorPos[1]].Cell[cursorCol + 1]

\* C20: after u the cell under the cursor is the cell as it was read from the
\* source, whatever r, p and the quote toggle did to it: not modified, and
\* written as the bytes it had in the source
C20_RestoreUndoesEdits ==
    [][ev'.key = "u" =>
         /\ ~CursorCell'.modified
         /\ SourceText(CursorCell') = LoadedCell'.original
         /\ CursorCell' = LoadedCell']_vars

\* u was pressed after x had been typed into a cell and yanked from it, and
\* no cell of the row is modified any more
C20_Witness ==
    /\ ev.key = "u" /\ killbuffer = << "x" >>
    /\ Rebuild(csvLines[1], mode.Comma) = RestoreSource
    /\ \A j \in 1..Len(csvLines[1].Cell) : ~csvLines[1].Cell[j].modified

(***************************************************************************)
(* Quote toggle: a row of a quoted plain cell, a quoted comma and a bare   *)
(* cell; the user replaces texts and toggles the quotes.                   *)
(***************************************************************************)
QuoteSource ==
    << QUOTE, "a", QUOTE, ",", QUOTE, ",", QUOTE, ",", "b", LF >>

InitQuote ==
    InitWith(Config(FALSE, FALSE, FALSE, 0, NoHook), QuoteSource,
             Pilot(50, 4, { << "x" >>, << QUOTE >>, << "x", LF >> }, { }))

NextQuote ==
    \/ Load \/ Ingest
    \/ KeyQuote \/ KeyR
    \/ KeyH \/ KeyL

SpecQuote == InitQuote /\ [][NextQuote]_vars

\* C21: the quote toggle keeps the decoded text; a text with the delimiter, a
\* quote or a line break is written quoted after it, any other text is
\* written bare when the cell was quoted and quoted when it was not
C21_QuoteToggle ==
    [][ev'.key = "quote" =>
         LET text == CursorCell.text
             out  == SourceText(CursorCell')
         IN /\ CursorCell'.text = text
            /\ Decode(out) = text
            /\ IF NeedsQuote(text, mode.Comma)
               THEN IsQuoted(CursorCell') /\ out = QuoteText(text)
               ELSE IF IsQuoted(CursorCell)
               THEN ~IsQuoted(CursorCell') /\ out = text
               ELSE IsQuoted(CursorCell') /\ out = QuoteText(text)]_vars

\* the quotes of the source cell "a" were toggled off: it is written bare
C21_Witness ==
    /\ ev.key = "quote" /\ cursorCol = 0 /\ Len(csvLines) = 1
    /\ CursorCell.original = << QUOTE, "a", QUOTE >>
    /\ CursorCell.text = << "a" >> /\ SourceText(CursorCell) = << "a" >>

(***************************************************************************)
(* Delimiter selection: every combination of a file argument (or none),    *)
(* the flags -t and -c and a terminal or a pipe as standard input.         *)
(***************************************************************************)
FileNames ==
    { << "a", ".", "c", "s", "v" >>, << "A", ".", "C", "S", "V" >>,
      << "a", ".", "C", "s", "v" >>, << ".", "c", "s", "v" >>,
      << "a", ".", "t", "s", "v" >>, << "a", "c", "s", "v" >>,
      << "a", ".", "c", "s", "v", ".", "b" >>, << "a", ".", "c", "s" >>,
      << "c", "s", "v", ".", "a" >>, << "a" >> }

ArgLists == { << >> } \cup { << n >> : n \in FileNames }
                \cup { << n, << "a", ".", "c", "s", "v" >> >> : n \in FileNames }

InitDelimiter ==
    \E args \in ArgLists : \E t \in BOOLEAN : \E c \in BOOLEAN : \E isTerm \in BOOLEAN :
        InitState(Config(FALSE, FALSE, FALSE, 0, NoHook), Absent,
                  Pilot(30, 4, { }, { }), Absent,
                  [stage |-> "args", args |-> args, flagTsv |-> t, flagCsv |-> c,
                   isTerminal |-> isTerm, comma |-> ""])

ProbeDelimiter ==
    /\ probe.stage = "args"
    /\ probe' = [probe EXCEPT !.stage = "done",
                    !.comma = selectComma(probe.args, probe.flagTsv, probe.flagCsv,
                                          probe.isTerminal)]
    /\ UNCHANGED << cfg, mode, tty, sourceBytes, input, fetch, csvLines,
                    removedRows, files, cursorRow, startRow, cursorCol, startCol,
                    lastWord, lastSearch, message, killbuffer, pc, stalled,
                    statusLine, term, source, ev >>

NextDelimiter == ProbeDelimiter

SpecDelimiter == InitDelimiter /\ [][NextDelimiter]_vars

\* the endings that are .csv whatever the case of the letters
CsvEndings ==
    { << ".", c, s, v >> : c \in {"c", "C"}, s \in {"s", "S"}, v \in {"v", "V"} }

EndsInCsv(name) ==
    Len(name) >= 4 /\ SubSeq(name, Len(name) - 3, Len(name)) \in CsvEndings

\* the delimiter the claim asks for; with both flags it asks for nothing
ClaimedComma ==
    IF probe.flagTsv /\ ~probe.flagCsv THEN { TAB }
    ELSE IF probe.flagCsv /\ ~probe.flagTsv THEN { "," }
    ELSE IF probe.flagTsv /\ probe.flagCsv THEN { TAB, "," }
    ELSE IF Len(probe.args) >= 1 /\ EndsInCsv(probe.args[1]) THEN { "," }
    ELSE { TAB }

\* C22: the delimiter is the comma when the first file argument ends in .csv
\* in any case of the letters and the tab for any other input, unless -t
\* (tab) or -c (comma) decides
C22_DelimiterChosen ==
    probe.stage = "done" => probe.comma \in ClaimedComma

\* C22, where it holds: whenever a file argument is given
C22_DelimiterOfFile ==
    (probe.stage = "done" /\ Len(probe.args) >= 1) => probe.comma \in ClaimedComma

(***************************************************************************)
(* Ingestion as an append at the tail.                                     *)
(***************************************************************************)
\* the cells of the rows of the source (o and D may change the terminator of
\* a row that stays)
SourceCells == [i \in 1..Len(SourceRows) |-> SourceRows[i].Cell]

\* a row that was read from the source: a row made by o or O starts from
\* NewRow, whose cell has no original bytes
FromSource(row) == \E i \in 1..Len(row.Cell) : row.Cell[i].original # << >>

RECURSIVE SourcePart(_)
SourcePart(lines) ==
    IF lines = << >> THEN << >>
    ELSE IF FromSource(Head(lines)) THEN << Head(lines).Cell >> \o SourcePart(Tail(lines))
    ELSE SourcePart(Tail(lines))

\* s is t with some elements left out
RECURSIVE IsSubSeq(_, _)
IsSubSeq(s, t) ==
    IF s = << >> THEN TRUE
    ELSE IF t = << >> THEN FALSE
    ELSE IF Head(s) = Head(t) THEN IsSubSeq(Tail(s), Tail(t))
    ELSE IsSubSeq(s, Tail(t))

\* an ingestion step appends at most one row at the tail and leaves the rows
\* already present, the cursor and the viewport anchors as they were
IngestAppendsAtTail ==
    [][ev'.key = "ingest" =>
         /\ Len(csvLines') \in { Len(csvLines), Len(csvLines) + 1 }
         /\ SubSeq(csvLines', 1, Len(csvLines)) = csvLines
         /\ cursorRow' = cursorRow /\ cursorCol' = cursorCol
         /\ startRow' = startRow /\ startCol' = startCol]_vars

\* at every moment the rows of the document that came from the source stand
\* in source order, and once ingestion is exhausted with no row deleted they
\* are all the rows of the source
SourceOrder ==
    pc = "loop" =>
        /\ IsSubSeq(SourcePart(csvLines), SourceCells)
        /\ (~fetch /\ removedRows = << >>) => SourcePart(csvLines) = SourceCells

\* C23: an ingestion step only appends one row at the tail, leaving the rows
\* already present, the cursor row and column and the viewport anchors
\* unchanged, and the rows that came from the source stand in the document
\* in source order, all of them once ingestion is exhausted
C23_IngestOnlyAppends == IngestAppendsAtTail /\ []SourceOrder

\* an ingestion step appended the second row of the source below a row the
\* user had inserted under the cursor, and ingestion is exhausted
C23_Witness ==
    /\ pc = "loop" /\ ev.key = "ingest" /\ ~fetch
    /\ Len(csvLines) = 3 /\ Len(SourceRows) = 2
    /\ ~FromSource(csvLines[2]) /\ csvLines[3].Cell = SourceCells[2]
    /\ cursorRow.lnum = 1

(***************************************************************************)
(* The wait for a key (keyWorker.GetOr, src/main.go:473-476 and 514-534):  *)
(* a key that has arrived is returned before the callback is called again. *)
(***************************************************************************)
\* the key reader hands a key to the loop, which is waiting in GetOr
KeyArrives ==
    /\ pc = "loop"
    /\ pc' = "key"
    /\ UNCHANGED << cfg, mode, tty, sourceBytes, input, fetch, csvLines,
                    removedRows, files, cursorRow, startRow, cursorCol, startCol,
                    lastWord, lastSearch, message, killbuffer, stalled, probe,
                    statusLine, term, source, ev >>

\* GetOr returns the key and the loop dispatches it
KeyTaken ==
    /\ pc = "key"
    /\ \/ Commit("move", HandleJ(AtDispatch))
       \/ Commit("move", HandleK(AtDispatch))
       \/ Commit("D", HandleD(AtDispatch))
       \/ \E yes \in BOOLEAN : Commit("q", HandleQ(AtDispatch, yes))

IdleSources ==
    { << "a", LF, "b", LF, "c" >>,
      << "a", LF, "b", LF, "c", LF >>,
      << "a", ",", "b", LF >> }

InitIdle ==
    \E bytes \in IdleSources :
        InitWith(Config(FALSE, FALSE, FALSE, 0, NoHook), bytes, Pilot(30, 3, { }, { }))

NextIdle == Load \/ Ingest \/ KeyArrives \/ KeyTaken

\* the loop runs: the load is done, and while GetOr waits without a key it
\* calls the callback again
SpecIdle ==
    InitIdle /\ [][NextIdle]_vars /\ WF_vars(Load) /\ WF_vars(Ingest)

\* the source is read to its end and each of its rows has entered the document
IngestionComplete ==
    /\ ~fetch /\ input = << >>
    /\ Len(SourcePart(csvLines)) + Len(SourcePart(removedRows)) = Len(SourceRows)

\* a step after the load that read from the source
ReadsSource == pc # "load" /\ (input' # input \/ fetch' # fetch)

\* a step that read from the source was taken with no key waiting and with
\* ingestion not exhausted, and brought one row at most
IngestOnlyWhileIdle ==
    [][ReadsSource =>
         /\ pc = "loop" /\ fetch /\ ev'.key = "ingest"
         /\ Len(csvLines') <= Len(csvLines) + 1]_vars

\* once a key has arrived or ingestion is exhausted no ingestion step can be
\* taken
IngestStops == (pc = "key" \/ ~fetch) => ~ENABLED Ingest

\* C24: while waiting for a key the loop performs ingestion steps of one row
\* each and stops as soon as a key has arrived or ingestion is exhausted, and
\* unless a key arrives ingestion eventually completes with every row of the
\* source in the document
C24_IngestUntilKeyOrEnd ==
    /\ IngestOnlyWhileIdle
    /\ []IngestStops
    /\ <>(IngestionComplete \/ pc = "key")

\* ingestion completed between two keys: rows entered after the first key was
\* dispatched, and the source is exhausted with all its rows in the document
C24_Witness ==
    /\ pc = "loop" /\ ev.key = "ingest" /\ IngestionComplete
    /\ Len(csvLines) = 3 /\ cursorRow.lnum = 1

(***************************************************************************)
(* The status line during and after ingestion.                             *)
(***************************************************************************)
\* C25: once ingestion has completed with no message displayed, the row
\* count in the status line is the row count of the document
C25_FinalRowCountShown ==
    (pc = "loop" /\ ~fetch /\ message = NoMessage /\ statusLine.kind = "status")
        => statusLine.rows = Len(csvLines)

\* C25, where it holds: the last row of the source came together with the end
\* of the input, that is, the source does not end with a line terminator
C25_FinalRowCountShownAtEofRow ==
    (pc = "loop" /\ ~fetch /\ message = NoMessage /\ statusLine.kind = "status"
        /\ sourceBytes # Absent /\ sourceBytes # << >>
        /\ sourceBytes[Len(sourceBytes)] # LF)
        => statusLine.rows = Len(csvLines)

\* while the loop waits, the last line shows the message slot if it is set
\* and the status line if it is not
MessageShown ==
    pc = "loop" =>
        /\ message # NoMessage =>
               statusLine.kind = "message" /\ statusLine.msg = message
        /\ message = NoMessage => statusLine.kind = "status"

\* a motion key, whose command sets no message, leaves no message behind
MessageClearedByNextKey ==
    [][(ev'.key = "move" /\ pc' = "loop") =>
           message' = NoMessage /\ statusLine'.kind = "status"]_vars

\* C26: a message set by a command is shown in the last line of the next
\* frame, ingestion refreshes do not overwrite it while it is displayed, and
\* the next key clears it unless its command sets a message again
C26_MessageForOneFrame == []MessageShown /\ MessageClearedByNextKey

\* a message was set, a row was ingested under it with the message still in
\* the last line
C26_Witness ==
    /\ pc = "loop" /\ ev.key = "ingest" /\ Len(csvLines) >= 2
    /\ message # NoMessage /\ statusLine.kind = "message"

(***************************************************************************)
(* Line numbers of the handles.                                            *)
(***************************************************************************)
\* the handle refers to a row of the document and carries its ordinal position
AtOrdinal(h) == Pos(csvLines, h.id) >= 1 /\ h.lnum = Pos(csvLines, h.id) - 1

\* the handles met when walking the document from app.Front() with Next()
RECURSIVE Walk(_, _)
Walk(lines, h) == IF h = NilPtr THEN << >> ELSE << h >> \o Walk(lines, NextPtr(lines, h))

\* the walk meets every row once, with the line numbers 0, 1, 2, ...
Gapless ==
    LET w == Walk(csvLines, Front(csvLines))
    IN /\ Len(w) = Len(csvLines)
       /\ \A i \in 1..Len(w) : w[i].id = csvLines[i].id /\ w[i].lnum = i - 1

HandlesAtOrdinals == Gapless /\ AtOrdinal(cursorRow) /\ AtOrdinal(startRow)

\* C27: after o, O, D and after an ingestion step the line numbers of the
\* rows are 0, 1, 2, ... in document order and the cursor handle and the
\* viewport-anchor handle carry the ordinal positions of their rows
C27_LineNumbersGapless ==
    (pc = "loop" /\ ev.key \in {"o", "O", "D", "ingest"}) => HandlesAtOrdinals

\* D removed a row above the cursor's final place while the viewport had
\* scrolled: the anchor is not the first row
C27_Witness ==
    /\ pc = "loop" /\ ev.key = "D" /\ ev.res = "ok"
    /\ removedRows # << >> /\ startRow.lnum >= 1
    /\ HandlesAtOrdinals

\* the longest line drawLine is called on
MaxLineCells == 4

LineCells ==
    { EmptyCell, SourceCell(<< "a" >>), SetText(EmptyCell, << "b", LF, "W" >>, ",") }

LineRows == UNION { [1..n -> LineCells] : n \in 0..MaxLineCells }

InitLine ==
    \E csvs \in LineRows : \E cw \in { 2, 3 } : \E w \in { 3, 5, 9 } :
    \E pos \in -1..(MaxLineCells - 1) : \E rev \in BOOLEAN :
        InitState(Config(FALSE, FALSE, FALSE, 0, NoHook), Absent,
                  Pilot(30, 4, { }, { }), Absent,
                  [stage |-> "args", csvs |-> csvs, cellWidth |-> cw,
                   screenWidth |-> w, cursorPos |-> pos, reverse |-> rev,
                   line |-> << >>])

ProbeLine ==
    /\ probe.stage = "args"
    /\ probe' = [probe EXCEPT !.stage = "drawn",
                    !.line = drawLine(probe.csvs, probe.cellWidth,
                                      probe.screenWidth, probe.cursorPos,
                                      probe.reverse, bodyColorStyle)]
    /\ UNCHANGED << cfg, mode, tty, sourceBytes, input, fetch, csvLines,
                    removedRows, files, cursorRow, startRow, cursorCol, startCol,
                    lastWord, lastSearch, message, killbuffer, pc, stalled,
                    statusLine, term, source, ev >>

NextLine == ProbeLine

SpecLine == InitLine /\ [][NextLine]_vars

\* the spans of a rendered line, read off what was written: a span starts at
\* the head of the line and at every move, at the cell the move went to; it
\* holds the text written before the next move (none for an empty cell) and
\* is drawn as the cursor cell when the cursor colour was switched on in it
RECURSIVE SpansOf(_, _, _)
SpansOf(line, cellWidth, span) ==
    IF line = << >> THEN << span >>
    ELSE LET t == Head(line) IN
         IF t.k = "goto"
         THEN << span >>
                  \o SpansOf(Tail(line), cellWidth,
                             [start  |-> (t.n - 1) \div cellWidth,
                              cursor |-> FALSE, s |-> << >>])
         ELSE IF t.k = "text"
         THEN SpansOf(Tail(line), cellWidth, [span EXCEPT !.s = @ \o t.s])
         ELSE SpansOf(Tail(line), cellWidth,
                      [span EXCEPT !.cursor = @ \/ t = bodyColorStyle.Cursor[1]])

\* the spans that start at a cell of the row: the move after the last cell
\* starts none
SpanOfCell(span) == span.start < Len(probe.csvs)

Spans ==
    SelectSeq(SpansOf(probe.line, probe.cellWidth,
                      [start |-> 0, cursor |-> FALSE, s |-> << >>]),
              SpanOfCell)

\* the cell after span k: the start of the next span, or the first cell that
\* is out of the visible width or of the row
SpanEnd(k) ==
    IF k < Len(Spans) THEN Spans[k + 1].start
    ELSE Len(probe.csvs)

CursorVisible ==
    /\ 0 <= probe.cursorPos /\ probe.cursorPos < Len(probe.csvs)
    /\ probe.cursorPos * probe.cellWidth < probe.screenWidth

\* a span takes in the empty cells after its own, never the cursor's cell,
\* and ends only at a cell with text, at the cursor's cell or where the
\* visible width or the row ends
RunsMerged ==
    \A k \in 1..Len(Spans) :
        /\ \A c \in (Spans[k].start + 1)..(SpanEnd(k) - 1) :
               c < Len(probe.csvs) /\ c * probe.cellWidth < probe.screenWidth
                   => probe.csvs[c + 1].text = << >> /\ c # probe.cursorPos
        /\ k > 1 => \/ probe.csvs[Spans[k].start + 1].text # << >>
                    \/ Spans[k].start = probe.cursorPos

\* with the cursor within the visible width exactly one span is drawn as the
\* cursor cell and it starts at the cursor's cell
CursorOwnSpan ==
    CursorVisible =>
        /\ Cardinality({ k \in 1..Len(Spans) : Spans[k].cursor }) = 1
        /\ \A k \in 1..Len(Spans) :
               Spans[k].cursor <=> Spans[k].start = probe.cursorPos

\* C29: in a rendered line a run of empty cells is merged into the span of
\* the cell before it, but the cell under the cursor starts its own span:
\* with the cursor within the visible width exactly one span is drawn as the
\* cursor cell, and it starts at the cursor's cell
C29_SpansMerged ==
    probe.stage = "drawn" => RunsMerged /\ CursorOwnSpan

\* the cursor is on an empty cell inside a run of empty cells: the run is cut
\* at the cursor, which has a span of its own
C29_Witness ==
    /\ probe.stage = "drawn" /\ CursorVisible
    /\ probe.cursorPos = 2 /\ Len(probe.csvs) = 4
    /\ \A c \in 2..4 : probe.csvs[c].text = << >>
    /\ Len(Spans) = 2 /\ Spans[2].start = 2 /\ Spans[2].cursor

\* frames drawn in a row on one view
MaxFrames == 2

DrawRows ==
    { << SourceCell(<< "a" >>) >>, << SourceCell(<< "b" >>), EmptyCell >> }

DrawDocs == [1..3 -> [Cell : DrawRows]]

NoCall28 == [start |-> 0, cur |-> 0, sCol |-> 0, cCol |-> 0]

InitDraw ==
    \E doc \in DrawDocs : \E hl \in { 0, 1 } :
        InitState(Config(FALSE, FALSE, FALSE, hl, NoHook), Absent,
                  Pilot(7, 3, { }, { }), Absent,
                  [stage |-> "view", lines |-> doc, frames |-> 0,
                   before |-> clearCache(<< >>), view |-> clearCache(<< >>),
                   call |-> NoCall28, out |-> << >>])

\* one frame: the loop calls view.Draw (src/main.go:495) with the anchor at
\* or above the cursor and the cursor within the screen
ProbeDraw ==
    /\ probe.stage \in { "view", "drawn" }
    /\ probe.frames < MaxFrames
    /\ \E start \in 0..(Len(probe.lines) - 1) : \E cur \in 0..(Len(probe.lines) - 1) :
       \E cCol \in 0..1 : \E sCol \in 0..1 :
           /\ start <= cur /\ cur < start + (tty.h - cfg.HeaderLines) - 1
           /\ sCol <= cCol /\ cCol < Len(probe.lines[cur + 1].Cell)
           /\ LET d == Draw(probe.view, probe.lines, start, cur, 2,
                            cfg.HeaderLines, sCol, cCol,
                            tty.h - cfg.HeaderLines, tty.w)
              IN probe' = [probe EXCEPT
                               !.stage = "drawn", !.frames = @ + 1,
                               !.before = probe.view,
                               !.view = [headCache |-> d.headCache,
                                         bodyCache |-> d.bodyCache],
                               !.call = [start |-> start, cur |-> cur,
                                         sCol |-> sCol, cCol |-> cCol],
                               !.out = d.out]
    /\ UNCHANGED << cfg, mode, tty, sourceBytes, input, fetch, csvLines,
                    removedRows, files, cursorRow, startRow, cursorCol, startCol,
                    lastWord, lastSearch, message, killbuffer, pc, stalled,
                    statusLine, term, source, ev >>

\* Ctrl-L or a change of the screen size (src/main.go:488-489, 553)
ProbeClear ==
    /\ probe.stage = "drawn"
    /\ probe' = [probe EXCEPT !.stage = "view", !.view = clearCache(@)]
    /\ UNCHANGED << cfg, mode, tty, sourceBytes, input, fetch, csvLines,
                    removedRows, files, cursorRow, startRow, cursorCol, startCol,
                    lastWord, lastSearch, message, killbuffer, pc, stalled,
                    statusLine, term, source, ev >>

NextDraw == ProbeDraw \/ ProbeClear

SpecDraw == InitDraw /\ [][NextDraw]_vars

\* the lines of the header band and of the body of the frame just drawn, as
\* drawLine renders them
HeadCount == IF cfg.HeaderLines < Len(probe.lines) THEN cfg.HeaderLines
             ELSE Len(probe.lines)

HeadLine(i) ==
    drawLine(cellsAfter(probe.lines[i + 1].Cell, probe.call.sCol), 2, tty.w - 1,
             IF i = probe.call.cur THEN probe.call.cCol - probe.call.sCol ELSE -1,
             i % 2 = 1, headColorStyle)

BodyStart ==
    IF probe.call.start < cfg.HeaderLines THEN probe.call.start + cfg.HeaderLines
    ELSE probe.call.start

BodyCount ==
    LET left == Len(probe.lines) - BodyStart
        h    == tty.h - cfg.HeaderLines - 1
    IN IF left <= 0 THEN 0 ELSE IF left < h THEN left ELSE h

BodyLine(i) ==
    drawLine(cellsAfter(probe.lines[BodyStart + i + 1].Cell, probe.call.sCol), 2,
             tty.w - 1,
             IF BodyStart + i = probe.call.cur
             THEN probe.call.cCol - probe.call.sCol ELSE -1,
             (i + cfg.HeaderLines) % 2 = 1, bodyColorStyle)

\* a band was drawn as claimed: piece i of what was written is the line if
\* it differs from the entry the cache had and nothing if it is equal, the
\* cache has the line afterwards, and the other entries are as they were
BandCached(pieces, n, before, after) ==
    /\ Len(pieces) = n
    /\ \A i \in 0..(n - 1) :
           /\ pieces[i + 1].written =
                  (IF CacheAt(before, i) # pieces[i + 1].line
                   THEN pieces[i + 1].line ELSE << >>)
           /\ CacheAt(after, i) = pieces[i + 1].line
    /\ \A i \in n..(tty.h) : CacheAt(after, i) = CacheAt(before, i)

FramePieces == Pieces(probe.out, << >>)

\* C28: drawPage writes a screen line exactly when the line just rendered
\* differs from the cache entry of its screen-row index, the cache entry of
\* every drawn index is the line just rendered afterwards, and the header
\* band and the body have caches of their own
C28_WritesOnlyChangedLines ==
    probe.stage = "drawn" =>
        /\ Len(FramePieces) = HeadCount + BodyCount
        /\ BandCached([i \in 1..HeadCount |->
                          [written |-> FramePieces[i], line |-> HeadLine(i - 1)]],
                      HeadCount, probe.before.headCache, probe.view.headCache)
        /\ BandCached([i \in 1..BodyCount |->
                          [written |-> FramePieces[HeadCount + i],
                           line |-> BodyLine(i - 1)]],
                      BodyCount, probe.before.bodyCache, probe.view.bodyCache)

\* the second frame of a view with a header line: the header line is as
\* cached and is not written, the first body line differs and is written
C28_Witness ==
    /\ probe.stage = "drawn" /\ probe.frames = 2 /\ cfg.HeaderLines = 1
    /\ probe.before.headCache # << >> /\ probe.before.bodyCache # << >>
    /\ FramePieces[1] = << >> /\ FramePieces[2] # << >>
    /\ probe.view.headCache[1] # probe.view.bodyCache[1]

(***************************************************************************)
(* The cursor column and the motion keys.                                  *)
(***************************************************************************)
\* when a command is dispatched the cursor column is a cell of the cursor row
ColumnValid ==
    pc = "loop" =>
        /\ Pos(csvLines, cursorRow.id) >= 1
        /\ 0 <= cursorCol /\ cursorCol < Len(RowOf(csvLines, cursorRow).Cell)

OnLastRow  == Pos(csvLines, cursorRow.id) = Len(csvLines)
OnFirstRow == Pos(csvLines, cursorRow.id) = 1
OnLastCol  == cursorCol = Len(RowOf(csvLines, cursorRow).Cell) - 1

CursorStays == cursorRow' = cursorRow /\ cursorCol' = cursorCol

\* j on the last row, k on the first row, h in column 0 and l in the last
\* column leave the cursor where it is
NoWrap ==
    [][/\ (KeyJ /\ OnLastRow) => CursorStays
       /\ (KeyK /\ OnFirstRow) => CursorStays
       /\ (KeyH /\ cursorCol = 0) => CursorStays
       /\ (KeyL /\ OnLastCol) => CursorStays]_vars

\* C30: at every dispatch the cursor column is a valid cell index of the
\* cursor row, and cursor motion never wraps
C30_CursorColumnValid == []ColumnValid /\ NoWrap

\* the cursor came from column 1 of a longer row to a row of one cell, and l
\* was pressed there: it is in column 0
C30_Witness ==
    /\ pc = "loop" /\ ev.key = "move"
    /\ Len(csvLines) >= 2 /\ OnFirstRow /\ cursorCol = 0 /\ OnLastCol
    /\ Len(csvLines[2].Cell) >= 2
    /\ message = NoMessage

(***************************************************************************)
(* The handles after a command.                                            *)
(***************************************************************************)
\* the handle refers to a row that is in the document
InDocument(h) == h # NilPtr /\ Pos(csvLines, h.id) >= 1

\* C31: after every command the cursor handle and the viewport-anchor handle
\* refer to rows of the document and the anchor is not below the cursor
C31_HandlesInDocument ==
    (pc \in { "loop", "panic" } /\ ev.key \notin { "start", "load" }) =>
        /\ InDocument(cursorRow) /\ InDocument(startRow)
        /\ startRow.lnum <= cursorRow.lnum

\* C31, where it holds: in every state the loop goes on from
C31_HandlesInDocumentWhileRunning ==
    (pc = "loop" /\ ev.key \notin { "start", "load" }) =>
        /\ InDocument(cursorRow) /\ InDocument(startRow)
        /\ startRow.lnum <= cursorRow.lnum

(***************************************************************************)
(* The cursor and the window of a frame.                                   *)
(***************************************************************************)
ViewSource == << "a", ",", "b", LF, "c", LF, "d", ",", "e" >>

InitView ==
    \E hl \in 0..2 : \E body \in 1..2 : \E w \in { 15, 29 } :
        InitWith(Config(FALSE, FALSE, FALSE, hl, NoHook), ViewSource,
                 Pilot(w, hl + 1 + body, { }, { }))

NextView == Load \/ Ingest \/ KeyJ \/ KeyK \/ KeyH \/ KeyL

SpecView == InitView /\ [][NextView]_vars

\* the frame the loop draws in this state (src/main.go:495), on an empty cache
Frame ==
    Draw(clearCache(<< >>), csvLines, startRow.lnum, cursorRow.lnum, tty.cellWidth,
         cfg.HeaderLines, startCol, cursorCol, tty.h - cfg.HeaderLines, tty.w)

\* the line numbers of the rows _View.Draw draws: the header band, and the
\* body from the anchor, or from below the band if the anchor is inside it
HeadRows == { n \in 0..(Len(csvLines) - 1) : n < cfg.HeaderLines }

BodyFirst ==
    IF startRow.lnum < cfg.HeaderLines THEN startRow.lnum + cfg.HeaderLines
    ELSE startRow.lnum

BodyRows ==
    { n \in 0..(Len(csvLines) - 1) :
          BodyFirst <= n /\ n < BodyFirst + (tty.h - cfg.HeaderLines - 1) }

VisibleCols == (tty.w - 1) \div tty.cellWidth

\* the frame has a span in the colour of the cursor
CursorDrawn == \E i \in 1..Len(Frame.out) : Frame.out[i] = bodyColorStyle.Cursor[1]

\* C32: at every frame the cursor row is one of the rows drawn in the header
\* band or in the body, and the cursor column is in [startCol, startCol+cols)
C32_CursorInWindow ==
    pc = "loop" =>
        /\ cursorRow.lnum \in HeadRows \cup BodyRows
        /\ startCol <= cursorCol /\ cursorCol < startCol + VisibleCols
        /\ CursorDrawn

\* C32, where it holds: with at most one header line
C32_CursorInWindowOneHeader ==
    (pc = "loop" /\ cfg.HeaderLines <= 1) =>
        /\ cursorRow.lnum \in HeadRows \cup BodyRows
        /\ startCol <= cursorCol /\ cursorCol < startCol + VisibleCols
        /\ CursorDrawn

(***************************************************************************)
(* The screen and the line cache.  A watched session: the terminal is      *)
(* recorded through every frame, every repaint and every clearCache.       *)
(***************************************************************************)
\* a second row that is empty, and a third row equal to the second
ScreenSources ==
    { << "a", LF, LF >>, << "a", LF, "b", LF, "b" >> }

InitScreen ==
    \E bytes \in ScreenSources :
        InitSession(Config(FALSE, FALSE, FALSE, 0, NoHook), bytes,
                    Pilot(15, 5, { << >> }, { }), Absent, NoProbe, TRUE)

NextScreen ==
    \/ Load \/ RepaintDrawn \/ FrameDrawn \/ Ingest
    \/ KeyJ \/ KeyD \/ KeyO \/ KeyBigO \/ KeyCtrlL

SpecScreen == InitScreen /\ [][NextScreen]_vars

\* the grid lines of the screen after the frame at the head of the loop, and
\* the lines that frame has to show
GridLines == SubSeq(term.screen, 1, term.lfCount)

GridRendered == Rendered(csvLines, startRow, cursorRow, startCol, cursorCol)

\* the last frame, and the last repaint, left every grid line showing the
\* rendering of its row
FrameShown ==
    (pc = "loop" /\ ev.key \notin { "start", "ingest" }) => GridLines = GridRendered

RepaintShown == term.paint.screen = term.paint.lines

\* C33: after every frame, the one at the head of the loop and the repaint
\* before a prompt alike, each screen line of the grid shows the current
\* rendering of the row drawn there: no write is suppressed by the cache on a
\* line that shows something else
C33_ScreenShowsRows == FrameShown /\ RepaintShown

\* the same for the frames of a document that has not shrunk: as long as no
\* row was removed the grid never gets shorter, the status line is never
\* written over a line that has a cache entry, and every line shows its row
C33_ScreenShowsRowsWhileGrowing ==
    removedRows = << >> => (FrameShown /\ RepaintShown)

(***************************************************************************)
(* The reads of the row source.  The source is read by the prefetch, by    *)
(* each call of the idle callback and by the drain of w; it ends, or it    *)
(* breaks and returns an error from then on.                               *)
(***************************************************************************)
ReadSources == { << "a", LF, "b" >>, << "a", LF, "b", LF >> }

InitSource ==
    \E bytes \in ReadSources :
        InitWith(Config(FALSE, FALSE, FALSE, 0, NoHook), bytes,
                 Pilot(30, 4, { }, { "-", "f" }))

NextSource == Load \/ Ingest \/ KeyW \/ KeyWFetch \/ KeyJ \/ KeyK \/ SourceFails

SpecSource == InitSource /\ [][NextSource]_vars

\* the step calls fetch(): the prefetch of a session that has a source, a
\* call of the idle callback, or a w that finds fetch set and drains
ReadsInStep ==
    \/ pc = "load" /\ sourceBytes # Absent
    \/ pc = "loop" /\ fetch /\ ev'.key \in { "ingest", "w" }

\* C34: once a read of the source has returned the end of the input, no step
\* of the session reads the source again, whichever of the prefetch, the
\* idle callback and the drain of w saw the end
C34_NeverReadAfterEnd == [][source.ended => ~ReadsInStep]_vars

\* the same for an end seen by the prefetch or by the idle callback: both
\* clear fetch, and nothing reads the source while fetch is clear
C34_NeverReadAfterEndSeenIdle ==
    [][(~source.ended /\ source'.ended /\ ev'.key # "w") => ~fetch']_vars


\* C35: a read of the source that returns an error other than the end of the
\* input ends the session with that error, in the prefetch, in the idle
\* callback and in the drain of w alike
C35_ReadErrorEndsSession ==
    [][(source.failing /\ ReadsInStep) => pc' = "error"]_vars

\* the same for the prefetch and the drain of w, which return the error
C35_ReadErrorEndsLoadAndDrain ==
    [][(source.failing /\ ReadsInStep /\ ev'.key # "ingest") => pc' = "error"]_vars


\* every row except the last ends with a terminator
RowsTerminated ==
    \A i \in 1..(Len(csvLines) - 1) : csvLines[i].Term # << >>

\* a turn of o, O or D leaves the last row of the document with the
\* terminator the last row had before the turn
LastTermHandedOver ==
    [][(pc = "loop" /\ ev'.key \in { "o", "O", "D" } /\ csvLines # << >>) =>
         csvLines'[Len(csvLines')].Term = csvLines[Len(csvLines)].Term]_vars

\* C36: with a default terminator that is not empty, a document in which
\* only the last row can lack a terminator after loading stays so through
\* o, O and D: every row except the last has a terminator, and o on the last
\* row and D of the last row hand its terminator over to the new last row
C36_OnlyLastRowUnterminated ==
    /\ [](mode.DefaultTerm # << >> => RowsTerminated)
    /\ LastTermHandedOver

\* o on a last row without terminator: the row got the default terminator
\* and the new last row has none
C36_Witness ==
    /\ pc = "loop" /\ ev.key = "o" /\ ev.res \in { "ok", "cancel" }
    /\ ~fetch /\ Len(csvLines) = 3 /\ cursorRow.lnum = 2
    /\ csvLines[2].Term = mode.DefaultTerm /\ csvLines[3].Term = << >>


(***************************************************************************)
(* The readers of the key source.  A keypress is [n, ch]: n counts the     *)
(* keys in the order they were typed.  The key source holds the keys typed *)
(* and not yet read.  It is read by the getter of keyWorker, on the        *)
(* worker's own thread (src/main.go:473-476), and by the dialogs, on the   *)
(* thread of the loop: YesNo calls app.GetKey (243-249) and a text prompt  *)
(* reads keys until the line is entered.  The worker is "idle", "reading"  *)
(* (inside the getter) or "ready" (it holds a key for GetOr); the loop is  *)
(* at its "head", "polling" inside GetOr (514-534), inside a "yesno" or a  *)
(* "readline" dialog, or has "quit".  The package of keyWorker is not part *)
(* of the source: whether its worker enters the getter only when GetOr     *)
(* asks for a key or also by itself, ahead of the next call, is left open, *)
(* and both are outcomes of the model.                                     *)
(***************************************************************************)
\* keys typed in one session
MaxKeys == 4

\* q asks "Quit Sure ?", r opens a text prompt, y and Enter are commands
\* without a dialog when they reach the dispatch
KeyChars == { "q", "r", "y", "enter" }

NoKey == [n |-> 0, ch |-> ""]

\* the states the worker may be in while GetOr has no call open, after it
\* was made and after GetOr has taken its key: waiting to be asked, or
\* inside the getter ahead of the next call
WorkerAfterDelivery == { "idle", "reading" }

\* keyWorker := nonblock.New(getter) (src/main.go:473-476)
keyWorker == { [state |-> st, held |-> NoKey] : st \in WorkerAfterDelivery }

\* ahead: the worker has entered its getter without being asked
InitKeys ==
    \E w \in keyWorker :
        InitState(Config(FALSE, FALSE, FALSE, 0, NoHook), Absent,
                  Pilot(30, 4, { }, { }), Absent,
                  [stage |-> "keys", keys |-> << >>, typed |-> 0, worker |-> w,
                   ahead |-> (w.state = "reading"),
                   main |-> "head", log |-> << >>])

OtherVars ==
    << cfg, mode, tty, sourceBytes, input, fetch, csvLines, removedRows, files,
       cursorRow, startRow, cursorCol, startCol, lastWord, lastSearch, message,
       killbuffer, pc, stalled, statusLine, term, source, ev >>

\* the user presses a key
UserTypes ==
    /\ probe.stage = "keys" /\ probe.typed < MaxKeys /\ probe.main # "quit"
    /\ \E ch \in KeyChars :
           probe' = [probe EXCEPT !.typed = @ + 1,
                                  !.keys = Append(@, [n |-> probe.typed + 1, ch |-> ch])]
    /\ UNCHANGED OtherVars

\* the loop calls keyWorker.GetOr (src/main.go:514): the worker is asked for
\* a key, which it may hold already
GetOrCalled ==
    /\ probe.stage = "keys" /\ probe.main = "head"
    /\ probe' = [probe EXCEPT !.main = "polling",
                              !.worker.state = IF @ = "ready" THEN "ready"
                                               ELSE "reading"]
    /\ UNCHANGED OtherVars

\* the getter of the worker returns a key: pilot.GetKey() (src/main.go:474)
WorkerGetKey ==
    /\ probe.stage = "keys" /\ probe.worker.state = "reading"
    /\ probe.keys # << >>
    /\ probe' = [probe EXCEPT !.keys = Tail(@),
                              !.worker = [state |-> "ready", held |-> Head(probe.keys)]]
    /\ UNCHANGED OtherVars

\* GetOr returns the key to the loop, which dispatches it (src/main.go:
\* 535-559, 774-782): q opens the yes/no question, r the text prompt
GetOrReturns ==
    /\ probe.stage = "keys" /\ probe.main = "polling"
    /\ probe.worker.state = "ready"
    /\ \E w \in keyWorker :
       probe' = [probe EXCEPT
                    !.worker = w,
                    !.ahead  = @ \/ (w.state = "reading"),
                    !.log    = Append(@, [n |-> probe.worker.held.n, by |-> "dispatch"]),
                    !.main   = IF probe.worker.held.ch = "q" THEN "yesno"
                               ELSE IF probe.worker.held.ch = "r" THEN "readline"
                               ELSE "head"]
    /\ UNCHANGED OtherVars

\* YesNo (src/main.go:243-249): one key, read by app.GetKey on the loop's
\* thread; y quits
YesNoGetKey ==
    /\ probe.stage = "keys" /\ probe.main = "yesno"
    /\ probe.keys # << >>
    /\ probe' = [probe EXCEPT
                    !.keys = Tail(@),
                    !.log  = Append(@, [n |-> Head(probe.keys).n, by |-> "dialog"]),
                    !.main = IF Head(probe.keys).ch = "y" THEN "quit" ELSE "head"]
    /\ UNCHANGED OtherVars

\* a text prompt (pilot.ReadLine, src/main.go:782) reads keys on the loop's
\* thread until Enter
PromptGetKey ==
    /\ probe.stage = "keys" /\ probe.main = "readline"
    /\ probe.keys # << >>
    /\ probe' = [probe EXCEPT
                    !.keys = Tail(@),
                    !.log  = Append(@, [n |-> Head(probe.keys).n, by |-> "dialog"]),
                    !.main = IF Head(probe.keys).ch = "enter" THEN "head"
                             ELSE "readline"]
    /\ UNCHANGED OtherVars

NextKeys ==
    \/ UserTypes \/ GetOrCalled \/ WorkerGetKey \/ GetOrReturns
    \/ YesNoGetKey \/ PromptGetKey

SpecKeys == InitKeys /\ [][NextKeys]_vars

InDialog == probe.main \in { "yesno", "readline" }

\* while a dialog waits for a key the worker is not in its getter and holds
\* no key
OneReader == InDialog => probe.worker = [state |-> "idle", held |-> NoKey]

\* the keys are read in the order they were typed
ReadInOrder == \A i \in 1..Len(probe.log) : probe.log[i].n = i

\* every key typed is in exactly one place: read (once, by one reader), held
\* by the worker, or still in the key source
EveryKeyOnce ==
    \A n \in 1..probe.typed :
        Cardinality({ i \in 1..Len(probe.log) : probe.log[i].n = n })
        + Cardinality({ i \in 1..Len(probe.keys) : probe.keys[i].n = n })
        + (IF probe.worker.held.n = n THEN 1 ELSE 0) = 1

\* C37: every keypress is consumed by exactly one reader; while a yes/no
\* question or a text prompt waits for input the worker is not reading the
\* key source, and the keys are read in the order typed, so no key typed into
\* a dialog reaches the dispatch of the loop
C37_OneReaderPerKey ==
    probe.stage = "keys" =>
        (OneReader /\ ReadInOrder /\ EveryKeyOnce)

\* C37 for a worker that enters its getter only when GetOr asks for a key
C37_OneReaderWhenAskedFor ==
    (probe.stage = "keys" /\ ~probe.ahead) =>
        (OneReader /\ ReadInOrder /\ EveryKeyOnce)

\* q, then a key typed into the question and read by it, then a key that is
\* dispatched, the worker never reading ahead
C37_DialogReadsItsKey ==
    /\ probe.stage = "keys" /\ ~probe.ahead /\ Len(probe.log) = 3
    /\ probe.log[1].by = "dispatch" /\ probe.log[2].by = "dialog"
    /\ probe.log[3].by = "dispatch"

\* a worker that reads ahead: while the question opened by q waits, the
\* worker is inside its getter as well
C37_WorkerReadsBesideDialog ==
    /\ probe.stage = "keys" /\ probe.ahead
    /\ probe.main = "yesno" /\ probe.worker.state = "reading"

====
